---------------------------- MODULE Spec2Model ----------------------------
(***************************************************************************)
(* A model of the analysis-orchestration core of the TOS analyzer:         *)
(*   - the content normalizer / hasher            (src/lib/utils.ts)       *)
(*   - the Redis cache, rate guard and budget     (src/lib/redis.ts)       *)
(*   - the LLM analysis engine                    (gemini-analyzer.ts)     *)
(*   - the analyze / fetch-by-id / publish routes (route handlers)         *)
(*                                                                         *)
(* Six specifications share the variables:                                 *)
(*   SpecNorm    normalizeText applied to bounded strings                  *)
(*   SpecGuard   checkRateLimit / checkReadRateLimit / checkDailyBudget    *)
(*   SpecEngine  analyzeWithClaude as a step machine (one step per await)  *)
(*   Spec        the request handlers over the store and the cache         *)
(*   SpecHash    hashContent applied to a string and a variation of it     *)
(*   SpecRace    analyze requests of several clients, interleaved at the   *)
(*               handler's awaits of the store and of the engine           *)
(* Each specification keeps the variables of the others at their idle      *)
(* values.                                                                 *)
(***************************************************************************)
EXTENDS Integers, Sequences, FiniteSets, TLC

VARIABLES
    now,        \* the wall clock, in seconds
    redis,      \* the Redis keyspace: key -> [val, exp]
    analyses,   \* the "analyses" table: a set of records
    shares,     \* the "shares" table: analysisId -> viewCount
    ret,        \* what the last handler / function call returned
    eng,        \* the state of one run of the analysis engine
    norm,       \* the normalizer harness: input and its normal forms
    served,     \* the number of requests handled so far
    inflight,   \* the requests in progress, by client
    window      \* history: the rate-limit window of each identity as its calls saw it

vars == <<now, redis, analyses, shares, ret, eng, norm, served, inflight, window>>

(***************************************************************************)
(* Bounds of the model.                                                    *)
(***************************************************************************)
MaxLen == 5

(***************************************************************************)
(* Characters.  A string is a sequence of one-character strings.           *)
(***************************************************************************)
Space == " "

Tab == "\t"

WhitespaceChars == {Space, Tab}

LowerLetters == {"a", "b", "c", "e", "i", "k", "m", "o", "r", "s", "t"}

UpperLetters == {"A", "B", "T"}

AllowedPunct == {".", ",", "!", "?", ";", ":", "(", ")", "-"}

\* String.prototype.toLowerCase on one character of the model's alphabet.
LowerChar(c) ==
    CASE c = "A" -> "a"
      [] c = "B" -> "b"
      [] c = "T" -> "t"
      [] OTHER -> c

\* the regular-expression class \s
IsSpace(c) == c \in WhitespaceChars

\* the regular-expression class \w  ([A-Za-z0-9_])
IsWordChar(c) == c \in LowerLetters \cup UpperLetters \cup {"_", "0", "1"}

\* the characters the class [^\w\s.,!?;:()\-] does NOT match
IsKept(c) == IsWordChar(c) \/ IsSpace(c) \/ c \in AllowedPunct

ToLowerCase(s) == [i \in 1..Len(s) |-> LowerChar(s[i])]

\* the positions of s that hold no whitespace
Inked(s) == {i \in 1..Len(s) : ~IsSpace(s[i])}

TrimStart(s) ==
    IF Inked(s) = {} THEN <<>>
    ELSE SubSeq(s, CHOOSE i \in Inked(s) : \A j \in Inked(s) : i <= j, Len(s))

TrimEnd(s) ==
    IF Inked(s) = {} THEN <<>>
    ELSE SubSeq(s, 1, CHOOSE i \in Inked(s) : \A j \in Inked(s) : i >= j)

\* String.prototype.trim
Trim(s) == TrimEnd(TrimStart(s))

\* .replace(/\s+/g, ' '): every maximal run of whitespace becomes one space
CollapseWhitespace(s) ==
    LET indexed == [i \in 1..Len(s) |-> <<i, s[i]>>]
        RunStart(p) == ~IsSpace(p[2]) \/ p[1] = 1 \/ ~IsSpace(s[p[1] - 1])
        kept == SelectSeq(indexed, RunStart)
    IN  [k \in 1..Len(kept) |-> IF IsSpace(kept[k][2]) THEN Space ELSE kept[k][2]]

\* .replace(/[^\w\s.,!?;:()\-]/g, ''): drop every character outside the class
StripSpecial(s) == SelectSeq(s, IsKept)

\* A plausible slip: the text is hashed in the case it came in.
normalizeTextKeepCase(text) ==
    Trim(StripSpecial(CollapseWhitespace(Trim(text))))

\* A plausible slip: the whitespace is collapsed after the strip, not before.
normalizeTextStripFirst(text) ==
    Trim(CollapseWhitespace(StripSpecial(Trim(ToLowerCase(text)))))

normalizeText(text) ==
    Trim(StripSpecial(CollapseWhitespace(Trim(ToLowerCase(text)))))

\* crypto.createHash('sha256'): collision-free on the model's strings, so a
\* digest is represented by the tagged string it was computed from.
Sha256(s) == <<"sha256", s>>

hashContent(text) == Sha256(normalizeText(text))

(***************************************************************************)
(* Time.  The clock counts seconds; the UTC date of checkDailyBudget is    *)
(* the day number.  Time passes in steps drawn from a small set, and a run *)
(* holds at most MaxTicks of them.                                         *)
(***************************************************************************)
MaxTicks == 2

SecondsPerDay == 86400

\* new Date().toISOString().split('T')[0]
UtcDate(t) == t \div SecondsPerDay

RECURSIVE Timeline(_, _)
Timeline(steps, n) ==
    IF n = 0 THEN {0}
    ELSE LET before == Timeline(steps, n - 1)
         IN  before \cup {t + d : t \in before, d \in steps}

(***************************************************************************)
(* Redis.  The keyspace maps a key to its value and the time it expires    *)
(* (NoExpiry: never).  A command of a backend that is down throws and has  *)
(* no effect.                                                              *)
(***************************************************************************)
NoExpiry == -1

Null == "null"

CACHE_KEYS ==
    [ANALYSIS |-> "tos:analysis:", SHARE |-> "tos:share:",
     RATE_LIMIT |-> "ratelimit:ip:", RATE_LIMIT_READ |-> "ratelimit:read:ip:",
     DAILY_TOKENS |-> "budget:daily_tokens:",
     DAILY_REQUESTS |-> "budget:daily_requests:"]

TtlAnalysis == 7 * 24 * 60 * 60

TtlShare == 30 * 24 * 60 * 60

TtlRateLimit == 60

CACHE_TTL == [ANALYSIS |-> TtlAnalysis, SHARE |-> TtlShare, RATE_LIMIT |-> TtlRateLimit]

Put(r, key, entry) ==
    [k \in DOMAIN r \cup {key} |-> IF k = key THEN entry ELSE r[k]]

\* the keys whose time to live has run out are gone
Purge(r, t) ==
    LET live == {k \in DOMAIN r : r[k].exp = NoExpiry \/ r[k].exp > t}
    IN  [k \in live |-> r[k]]

RedisExists(r, key) == key \in DOMAIN r

\* GET: the value, or null for a missing key
RedisGet(r, key) == IF key \in DOMAIN r THEN r[key].val ELSE Null

RedisSetex(r, t, key, ttl, v) == Put(r, key, [val |-> v, exp |-> t + ttl])

RedisDel(r, key) == [k \in DOMAIN r \ {key} |-> r[k]]

\* A plausible slip: SET where INCRBY was meant, the counter holds the last amount.
RedisIncrByOverwrites(r, key, n) ==
    IF key \in DOMAIN r
    THEN Put(r, key, [r[key] EXCEPT !.val = n])
    ELSE Put(r, key, [val |-> n, exp |-> NoExpiry])

\* INCRBY: a missing key counts from 0 and gets no expiry
RedisIncrBy(r, key, n) ==
    IF key \in DOMAIN r
    THEN Put(r, key, [r[key] EXCEPT !.val = @ + n])
    ELSE Put(r, key, [val |-> n, exp |-> NoExpiry])

RedisExpire(r, t, key, ttl) ==
    IF key \in DOMAIN r THEN Put(r, key, [r[key] EXCEPT !.exp = t + ttl]) ELSE r

\* A plausible slip: the expiry is set on every call, not only on the first.
atomicRateLimitSliding(r, t, key, windowSeconds) ==
    LET incremented == RedisIncrBy(r, key, 1)
    IN  [r |-> RedisExpire(incremented, t, key, windowSeconds),
         count |-> incremented[key].val]

\* A plausible slip (INCR and EXPIRE as two commands, the second one lost):
\* the counter is created without a time to live.
atomicRateLimitIncrOnly(r, t, key, windowSeconds) ==
    LET incremented == RedisIncrBy(r, key, 1)
    IN  [r |-> incremented, count |-> incremented[key].val]

\* The Lua script: INCR, and EXPIRE when the count is 1, as one command.
atomicRateLimit(r, t, key, windowSeconds) ==
    LET incremented == RedisIncrBy(r, key, 1)
        count == incremented[key].val
    IN  [r |-> IF count = 1
               THEN RedisExpire(incremented, t, key, windowSeconds)
               ELSE incremented,
         count |-> count]

\* A plausible slip (the earlier design): an error lets the request through.
checkRateLimitFailOpen(r, t, ip, limit, down) ==
    IF down
    THEN [r |-> r, exceeded |-> FALSE, threw |-> FALSE]
    ELSE LET a == atomicRateLimit(r, t, <<CACHE_KEYS.RATE_LIMIT, ip>>, CACHE_TTL.RATE_LIMIT)
         IN  [r |-> a.r, exceeded |-> a.count > limit, threw |-> FALSE]

\* checkRateLimit(ip, limit); down: the backend throws on the eval
checkRateLimit(r, t, ip, limit, down) ==
    IF down
    THEN [r |-> r, exceeded |-> TRUE, threw |-> FALSE]
    ELSE LET a == atomicRateLimit(r, t, <<CACHE_KEYS.RATE_LIMIT, ip>>, CACHE_TTL.RATE_LIMIT)
         IN  [r |-> a.r, exceeded |-> a.count > limit, threw |-> FALSE]

checkReadRateLimit(r, t, ip, limit, down) ==
    IF down
    THEN [r |-> r, exceeded |-> TRUE, threw |-> FALSE]
    ELSE LET a == atomicRateLimit(r, t, <<CACHE_KEYS.RATE_LIMIT_READ, ip>>, CACHE_TTL.RATE_LIMIT)
         IN  [r |-> a.r, exceeded |-> a.count > limit, threw |-> FALSE]

\* process.env.DAILY_TOKEN_BUDGET, scaled to the model's token counts
DailyTokenBudget == 2

DailyKeyTtl == 48 * 60 * 60

\* The Redis commands of checkDailyBudget(tokensToAdd), in program order.
BudgetCommands(t, tokensToAdd) ==
    LET tokenKey == <<CACHE_KEYS.DAILY_TOKENS, UtcDate(t)>>
        requestKey == <<CACHE_KEYS.DAILY_REQUESTS, UtcDate(t)>>
    IN  IF tokensToAdd > 0
        THEN << [cmd |-> "incrby", key |-> tokenKey, n |-> tokensToAdd],
                [cmd |-> "incrby", key |-> requestKey, n |-> 1],
                [cmd |-> "expire", key |-> tokenKey, n |-> DailyKeyTtl],
                [cmd |-> "expire", key |-> requestKey, n |-> DailyKeyTtl] >>
        ELSE << [cmd |-> "get", key |-> tokenKey, n |-> 0] >>

RedisApply(r, t, c) ==
    CASE c.cmd = "incrby" -> RedisIncrBy(r, c.key, c.n)
      [] c.cmd = "expire" -> RedisExpire(r, t, c.key, c.n)
      [] OTHER -> r

\* the keyspace after the first n commands of cmds
RECURSIVE RedisRun(_, _, _, _)
RedisRun(r, t, cmds, n) ==
    IF n = 0 THEN r
    ELSE RedisApply(RedisRun(r, t, cmds, n - 1), t, cmds[n])

\* A plausible slip: the catch block reports the budget as not exceeded.
checkDailyBudgetFailOpen(r, t, tokensToAdd, failAt) ==
    LET cmds == BudgetCommands(t, tokensToAdd)
        tokenKey == <<CACHE_KEYS.DAILY_TOKENS, UtcDate(t)>>
        failed == failAt \in 1..Len(cmds)
        done == IF failed THEN failAt - 1 ELSE Len(cmds)
        after == RedisRun(r, t, cmds, done)
        current == RedisGet(after, tokenKey)
        used == IF RedisExists(after, tokenKey) THEN current ELSE 0
    IN  IF failed
        THEN [r |-> after, exceeded |-> FALSE, used |-> 0,
              limit |-> DailyTokenBudget, threw |-> FALSE]
        ELSE [r |-> after, exceeded |-> used > DailyTokenBudget, used |-> used,
              limit |-> DailyTokenBudget, threw |-> FALSE]

\* A plausible slip: the budget counts as exceeded once it is used up.
checkDailyBudgetInclusive(r, t, tokensToAdd, failAt) ==
    LET cmds == BudgetCommands(t, tokensToAdd)
        tokenKey == <<CACHE_KEYS.DAILY_TOKENS, UtcDate(t)>>
        failed == failAt \in 1..Len(cmds)
        done == IF failed THEN failAt - 1 ELSE Len(cmds)
        after == RedisRun(r, t, cmds, done)
        current == RedisGet(after, tokenKey)
        used == IF RedisExists(after, tokenKey) THEN current ELSE 0
    IN  IF failed
        THEN [r |-> after, exceeded |-> TRUE, used |-> 0,
              limit |-> DailyTokenBudget, threw |-> FALSE]
        ELSE [r |-> after, exceeded |-> used >= DailyTokenBudget, used |-> used,
              limit |-> DailyTokenBudget, threw |-> FALSE]

\* checkDailyBudget(tokensToAdd); failAt = k: the k-th Redis command throws
\* (0, or k beyond the last command: none does).
checkDailyBudget(r, t, tokensToAdd, failAt) ==
    LET cmds == BudgetCommands(t, tokensToAdd)
        tokenKey == <<CACHE_KEYS.DAILY_TOKENS, UtcDate(t)>>
        failed == failAt \in 1..Len(cmds)
        done == IF failed THEN failAt - 1 ELSE Len(cmds)
        after == RedisRun(r, t, cmds, done)
        current == RedisGet(after, tokenKey)
        used == IF RedisExists(after, tokenKey) THEN current ELSE 0
    IN  IF failed
        THEN [r |-> after, exceeded |-> TRUE, used |-> 0,
              limit |-> DailyTokenBudget, threw |-> FALSE]
        ELSE [r |-> after, exceeded |-> used > DailyTokenBudget, used |-> used,
              limit |-> DailyTokenBudget, threw |-> FALSE]

(***************************************************************************)
(* The analysis engine (ClaudeAnalyzer).  A document is represented by its *)
(* shape: the number of words and whether whitespace leads or trails it.   *)
(* A model call answers with one of the Responses; the engine is a step    *)
(* machine with one step per awaited call or sleep.                        *)
(***************************************************************************)
maxRetries == 3

retryDelay == 1000

ChunkThreshold == 45000

ChunkWords == 40000

InterChunkPause == 1000

BackoffCap == 10000

Min(a, b) == IF a < b THEN a ELSE b

RECURSIVE Pow2(_)
Pow2(n) == IF n = 0 THEN 1 ELSE 2 * Pow2(n - 1)

\* A plausible slip: the exponent counts attempts from 1.
calculateBackoffFromOne(attempt, baseDelay) ==
    Min(baseDelay * Pow2(attempt + 1), BackoffCap)

calculateBackoff(attempt, baseDelay) ==
    Min(baseDelay * Pow2(attempt), BackoffCap)

Bit(b) == IF b THEN 1 ELSE 0

\* tosText.trim().split(/\s+/).length: the empty string splits into [""]
TrimmedSplitLength(doc) == IF doc.words = 0 THEN 1 ELSE doc.words

\* text.split(/\s+/).length: leading or trailing whitespace adds an empty token
SplitLength(doc) ==
    IF doc.words = 0 THEN (IF doc.lead \/ doc.trail THEN 2 ELSE 1)
    ELSE doc.words + Bit(doc.lead) + Bit(doc.trail)

\* chunkText(text, maxWords).length: one chunk per started block of maxWords
ChunkCount(doc, maxWords) == (SplitLength(doc) + maxWords - 1) \div maxWords

TransientKinds == {"network", "empty", "nojson", "syntax"}

MaxTokenCount == 2

TokenCounts == {0, MaxTokenCount}

\* What one model.generateContent call can come back with:
\*   ok       JSON that passes AnalysisResultSchema, with the usage metadata
\*   schema   JSON that AnalysisResultSchema.parse rejects (ZodError)
\*   network  generateContent throws;  empty: response.text() is empty
\*   nojson   no {...} in the text;    syntax: JSON.parse throws
\* response.usageMetadata of an answer the engine rejects: a call that throws
\* reports nothing, an answer that arrives has been billed like any other
RejectedUsage(kind) == IF kind = "network" THEN 0 ELSE MaxTokenCount

Responses ==
    [kind : {"ok"}, legal : BOOLEAN, tokens : TokenCounts]
        \cup {[kind |-> k, legal |-> FALSE, tokens |-> RejectedUsage(k)] :
                 k \in {"schema"} \cup TransientKinds}

Call(phase, resp) == [ev |-> "call", phase |-> phase, resp |-> resp.kind]

Sleep(why, ms) == [ev |-> "sleep", why |-> why, ms |-> ms]

EngInit(doc) ==
    [pc |-> "IDLE", doc |-> doc, mode |-> "none", chunks |-> 0, i |-> 0,
     attempt |-> 0, log |-> <<>>, totalTokens |-> 0, legal |-> FALSE,
     error |-> "none", consumed |-> 0]

\* A plausible slip: the comparison includes the threshold.
analyzeWithClaudeInclusive(e) ==
    IF TrimmedSplitLength(e.doc) >= ChunkThreshold
    THEN [e EXCEPT !.pc = "CALL", !.mode = "CHUNKED",
                   !.chunks = ChunkCount(e.doc, ChunkWords)]
    ELSE [e EXCEPT !.pc = "CALL", !.mode = "SINGLE_PASS"]

\* analyzeWithClaude: the entry decision
analyzeWithClaude(e) ==
    IF TrimmedSplitLength(e.doc) > ChunkThreshold
    THEN [e EXCEPT !.pc = "CALL", !.mode = "CHUNKED",
                   !.chunks = ChunkCount(e.doc, ChunkWords)]
    ELSE [e EXCEPT !.pc = "CALL", !.mode = "SINGLE_PASS"]

\* A plausible slip: the pause follows every chunk, the last one included.
SinglePassReturnedPausesLast(e, resp) ==
    IF e.mode = "SINGLE_PASS"
    THEN [e EXCEPT !.pc = "DONE", !.totalTokens = resp.tokens, !.legal = resp.legal]
    ELSE [e EXCEPT !.totalTokens = @ + resp.tokens,
                   !.pc = IF e.i < e.chunks THEN "PAUSE" ELSE "SYNTH"]

\* analyzeSinglePass returned { analysis, tokensUsed } to its caller
SinglePassReturned(e, resp) ==
    IF e.mode = "SINGLE_PASS"
    THEN [e EXCEPT !.pc = "DONE", !.totalTokens = resp.tokens, !.legal = resp.legal]
    ELSE [e EXCEPT !.totalTokens = @ + resp.tokens,
                   !.pc = IF e.i < e.chunks - 1 THEN "PAUSE" ELSE "SYNTH"]

\* A plausible slip: the last attempt is followed by one more.
SinglePassCaughtInclusive(e) ==
    IF e.attempt <= maxRetries - 1
    THEN [e EXCEPT !.pc = "BACKOFF"]
    ELSE [e EXCEPT !.pc = "FAILED", !.error = "Analysis failed after 3 attempts"]

\* A plausible slip: a chunk whose attempts are used up is skipped and the
\* loop goes on to the next one.
SinglePassCaughtSkipsChunk(e) ==
    CASE e.attempt < maxRetries - 1 -> [e EXCEPT !.pc = "BACKOFF"]
      [] e.mode = "CHUNKED" ->
            [e EXCEPT !.pc = IF e.i < e.chunks - 1 THEN "PAUSE" ELSE "SYNTH"]
      [] OTHER -> [e EXCEPT !.pc = "FAILED", !.error = "Analysis failed after 3 attempts"]

\* the catch block of analyzeSinglePass for an error that is not a ZodError
SinglePassCaught(e) ==
    IF e.attempt < maxRetries - 1
    THEN [e EXCEPT !.pc = "BACKOFF"]
    ELSE [e EXCEPT !.pc = "FAILED", !.error = "Analysis failed after 3 attempts"]

\* A plausible slip: a ZodError is handled like any other error.
SinglePassCallRetriesSchema(e, resp) ==
    LET called == [e EXCEPT !.log = Append(@, Call(e.mode, resp)), !.consumed = @ + resp.tokens]
    IN  IF resp.kind = "ok" THEN SinglePassReturned(called, resp)
        ELSE SinglePassCaught(called)

\* A plausible slip: the loop always sleeps and goes round again.
SinglePassCallNoCap(e, resp) ==
    LET called == [e EXCEPT !.log = Append(@, Call(e.mode, resp)), !.consumed = @ + resp.tokens]
    IN  CASE resp.kind = "ok" -> SinglePassReturned(called, resp)
          [] resp.kind = "schema" ->
                [called EXCEPT !.pc = "FAILED", !.error = "Invalid analysis format"]
          [] OTHER -> [called EXCEPT !.pc = "BACKOFF"]

\* one iteration of the loop of analyzeSinglePass, up to its sleep
SinglePassCall(e, resp) ==
    LET called == [e EXCEPT !.log = Append(@, Call(e.mode, resp)), !.consumed = @ + resp.tokens]
    IN  CASE resp.kind = "ok" -> SinglePassReturned(called, resp)
          [] resp.kind = "schema" ->
                [called EXCEPT !.pc = "FAILED", !.error = "Invalid analysis format"]
          [] OTHER -> SinglePassCaught(called)

\* await sleep(calculateBackoff(attempt, retryDelay)); attempt++
SinglePassBackoff(e) ==
    [e EXCEPT !.log = Append(@, Sleep("backoff", calculateBackoff(e.attempt, retryDelay))),
              !.attempt = @ + 1, !.pc = "CALL"]

\* await sleep(1000) between two chunks; i++
ChunkPause(e) ==
    [e EXCEPT !.log = Append(@, Sleep("pause", InterChunkPause)),
              !.i = @ + 1, !.attempt = 0, !.pc = "CALL"]

\* synthesizeChunks: one model call, outside any retry loop
SynthesizeCall(e, resp) ==
    LET called == [e EXCEPT !.log = Append(@, Call("SYNTHESIS", resp)), !.consumed = @ + resp.tokens]
    IN  IF resp.kind = "ok"
        THEN [called EXCEPT !.pc = "DONE", !.totalTokens = @ + resp.tokens,
                            !.legal = resp.legal]
        ELSE [called EXCEPT !.pc = "FAILED",
                            !.error = IF resp.kind = "schema" THEN "ZodError"
                                      ELSE "synthesis failed"]

(***************************************************************************)
(* Text validation (utils.ts) and the request texts of the model.          *)
(***************************************************************************)
\* text.trim().split(/\s+/).filter(Boolean).length: the number of maximal
\* runs of non-whitespace characters
countWords(text) ==
    Cardinality({i \in Inked(text) : i = 1 \/ IsSpace(text[i - 1])})

MinChars == 50

MaxChars == 500000

MinWords == 10

MaxWordCount == 50000

\* AnalyzeRequestSchema: text is z.string().min(50).max(500000)
SchemaAccepts(text) == Len(text) >= MinChars /\ Len(text) <= MaxChars

\* validateTOSText: the error message, or "ok" for null
validateTOSText(text) ==
    LET trimmed == Trim(text)
    IN  IF text = <<>> THEN "Text is required"
        ELSE IF Len(trimmed) < MinChars THEN "Text is too short (minimum 50 characters)"
        ELSE IF Len(trimmed) > MaxChars THEN "Text is too long (maximum 500,000 characters)"
        ELSE IF countWords(trimmed) < MinWords THEN "Text is too short (minimum 10 words)"
        ELSE IF countWords(trimmed) > MaxWordCount THEN "Text is too long (maximum 50,000 words)"
        ELSE "ok"

RECURSIVE Repeat(_, _)
Repeat(s, n) == IF n = 0 THEN <<>> ELSE s \o Repeat(s, n - 1)

WordTerms == <<"t", "e", "r", "m", "s">>

WordCookie == <<"c", "o", "o", "k", "i", "e">>

\* twelve words, single spaces
TextTerms == Repeat(WordTerms \o <<Space>>, 11) \o WordTerms

\* the same document with other case, whitespace runs and a stripped character
TextTermsVariant ==
    <<Space, "T", "e", "r", "m", "s", Tab, Space>>
        \o Repeat(WordTerms \o <<Space, Space>>, 10) \o WordTerms \o <<"@", Space>>

\* another document
TextCookie == Repeat(WordCookie \o <<Space>>, 11) \o WordCookie

ReqTexts == {TextTerms, TextTermsVariant, TextCookie}

DocOf(text) ==
    [words |-> countWords(text),
     lead |-> text # <<>> /\ IsSpace(text[1]),
     trail |-> text # <<>> /\ IsSpace(text[Len(text)])]

\* fewer than 50 characters: rejected by AnalyzeRequestSchema
TextShort == Repeat(WordTerms \o <<Space>>, 2)

\* nine words in more than 50 characters: rejected by validateTOSText
TextNineWords == Repeat(WordCookie \o <<Space>>, 8) \o WordCookie

AllTexts == ReqTexts \cup {TextShort, TextNineWords}

\* the pure functions of a request text, tabulated once
TextFacts ==
    [x \in AllTexts |->
        [hash |-> hashContent(x), accepted |-> SchemaAccepts(x),
         error |-> validateTOSText(x), doc |-> DocOf(x)]] @@ <<>>

\* what the model answers to the calls of one request
Scripts ==
    { << [kind |-> "ok", legal |-> TRUE, tokens |-> MaxTokenCount] >>,
      << [kind |-> "ok", legal |-> TRUE, tokens |-> 0] >>,
      << [kind |-> "ok", legal |-> FALSE, tokens |-> MaxTokenCount] >>,
      << [kind |-> "network", legal |-> FALSE, tokens |-> 0],
         [kind |-> "ok", legal |-> TRUE, tokens |-> MaxTokenCount] >>,
      << [kind |-> "schema", legal |-> FALSE, tokens |-> MaxTokenCount] >>,
      << [kind |-> "network", legal |-> FALSE, tokens |-> 0],
         [kind |-> "empty", legal |-> FALSE, tokens |-> MaxTokenCount],
         [kind |-> "syntax", legal |-> FALSE, tokens |-> MaxTokenCount] >> }

(***************************************************************************)
(* The engine run to its end (analyzeWithClaude awaited by analyze): the   *)
(* model answers the calls with the responses of script, in order.         *)
(***************************************************************************)
RECURSIVE RunEngine(_, _)
RunEngine(e, script) ==
    CASE e.pc \in {"DONE", "FAILED"} -> e
      [] e.pc = "IDLE" -> RunEngine(analyzeWithClaude(e), script)
      [] e.pc = "BACKOFF" -> RunEngine(SinglePassBackoff(e), script)
      [] e.pc = "PAUSE" -> RunEngine(ChunkPause(e), script)
      [] script = <<>> -> [e EXCEPT !.pc = "FAILED", !.error = "no response"]
      [] e.pc = "CALL" -> RunEngine(SinglePassCall(e, Head(script)), Tail(script))
      [] OTHER -> RunEngine(SynthesizeCall(e, Head(script)), Tail(script))

\* a finished run and the number of model calls it made
EngineOutcome(e) ==
    [e |-> e, calls |-> Len(SelectSeq(e.log, LAMBDA x : x.ev = "call"))]

\* the engine's runs on the request texts, tabulated once
EngineRuns ==
    [x \in AllTexts, script \in Scripts |->
        EngineOutcome(RunEngine(EngInit(TextFacts[x].doc), script))] @@ <<>>

DetectedCompany == "Initech"

\* the AnalysisResult the engine returns, by the fields the routes read
AnalysisResult(legal) ==
    [is_legal_document |-> legal, detected_company |-> DetectedCompany]

\* the end of ClaudeAnalyzer.analyze once analyzeWithClaude has finished in e
analyzeFinished(r, t, key, e, calls, setDown) ==
    IF e.pc = "FAILED"
    THEN [r |-> r, threw |-> TRUE, result |-> AnalysisResult(FALSE),
          cached |-> FALSE, tokensUsed |-> 0, calls |-> calls]
    ELSE [r |-> IF setDown THEN r
                ELSE RedisSetex(r, t, key, CACHE_TTL.ANALYSIS, AnalysisResult(e.legal)),
          threw |-> FALSE, result |-> AnalysisResult(e.legal),
          cached |-> FALSE, tokensUsed |-> e.totalTokens, calls |-> calls]

\* A plausible slip: a cache hit is reported like a fresh result, with the
\* token count of the run that filled the cache.
analyzeCachedAsFresh(r, t, key, text, script, getDown, setDown) ==
    IF ~getDown /\ RedisExists(r, key)
    THEN [r |-> r, threw |-> FALSE, result |-> RedisGet(r, key),
          cached |-> FALSE, tokensUsed |-> MaxTokenCount, calls |-> 0]
    ELSE analyzeFinished(r, t, key, EngineRuns[text, script].e,
                         EngineRuns[text, script].calls, setDown)

\* the cache check of ClaudeAnalyzer.analyze
analyzeCached(r, t, key, text, script, getDown, setDown) ==
    IF ~getDown /\ RedisExists(r, key)
    THEN [r |-> r, threw |-> FALSE, result |-> RedisGet(r, key),
          cached |-> TRUE, tokensUsed |-> 0, calls |-> 0]
    ELSE analyzeFinished(r, t, key, EngineRuns[text, script].e,
                         EngineRuns[text, script].calls, setDown)

\* ClaudeAnalyzer.analyze(tosText, false); getDown / setDown: the cache
\* command throws (getCachedAnalysis and cacheAnalysis swallow the error)
analyze(r, t, text, script, getDown, setDown) ==
    analyzeCached(r, t, <<CACHE_KEYS.ANALYSIS, TextFacts[text].hash>>, text,
                  script, getDown, setDown)

(***************************************************************************)
(* The routes.  A handler is a function of the stores, the clock and the   *)
(* request; it returns the stores after it and the response.  failFrom = k *)
(* : the Redis backend goes down before the k-th Redis command of the      *)
(* handler and stays down to its end.                                      *)
(***************************************************************************)
SESSION_SALT == "tos-analyzer-salt"

\* crypto.randomBytes(32): the token of the n-th request is a value no
\* earlier request drew; 0 stands for no token at all
NoToken == 0

FreshToken(n) == n + 1

\* crypto.createHmac('sha256', salt).update(token).digest('hex')
Hmac(salt, token) == <<"hmac-sha256", salt, token>>

ExpiryDays == 30

\* calculateExpiryDate(days), from the clock t
calculateExpiryDate(t, days) == t + days * SecondsPerDay

calculatePopularityScore(viewCount, shareCount) == viewCount + (shareCount * 2)

\* missing from the sources: the name is taken as it comes, trimmed
sanitizeCompanyName(name) == name

\* process.env.RATE_LIMIT_PER_MINUTE and the default of checkRateLimit,
\* scaled to the length of a run
RateLimitPerMinute == 3

\* ids are record numbers; 0 stands for an id that fails the uuid pattern
IsUuid(id) == id > 0

NoData == [id |-> 0]

\* A plausible slip: the comparison is turned round.
NotExpiredInverted(expiresAt, t) == expiresAt < t

\* new Date(existingAnalysis.expiresAt) > new Date()
NotExpired(expiresAt, t) == expiresAt > t

\* the response of the analyze route; the fields of a rejection
AnalyzeResponse(status, code, calls, events) ==
    [status |-> status, code |-> code, id |-> 0, cached |-> FALSE,
     creator_token |-> NoToken, modelCalls |-> calls, persisted |-> "no",
     events |-> events]

\* the number of the Redis command of checkDailyBudget(tokensUsed) that
\* throws when the backend goes down before the handler's command failFrom;
\* its four commands are the 5th to the 8th of the handler
RegisterFailAt(failFrom) ==
    IF failFrom <= 5 THEN 1 ELSE IF failFrom <= 8 THEN failFrom - 4 ELSE 0

AnalyzeRejected(r, db, status, code, calls, events) ==
    [redis |-> r, analyses |-> db,
     res |-> AnalyzeResponse(status, code, calls, events)]

\* A plausible slip: the table has no unique index on content_hash.
NoUniqueIndex(db, contentHash) == FALSE

\* CREATE UNIQUE INDEX "analyses_content_hash_key": an insert of a second row
\* with the contentHash is refused, and prisma.analysis.create throws
UniqueViolation(db, contentHash) == \E a \in db : a.contentHash = contentHash

\* A plausible slip: a view of the stored record renews its expiry.
AnalyzeFromStoreRenews(r, t, db, hit, req) ==
    IF req.eventsDown
    THEN AnalyzeRejected(r, db, 500, "ANALYSIS_ERROR", 0, <<>>)
    ELSE [redis |-> r,
          analyses |-> (db \ {hit})
                          \cup {[hit EXCEPT !.expiresAt = calculateExpiryDate(t, 31)]},
          res |-> [AnalyzeResponse(200, "OK", 0, <<"analysis_viewed">>)
                      EXCEPT !.id = hit.id, !.cached = TRUE]]

\* the stored record is returned: the analysis_viewed event, the answer; a
\* throwing analyticsEvent.create lands in the handler's catch block
AnalyzeFromStore(r, t, db, hit, req) ==
    IF req.eventsDown
    THEN AnalyzeRejected(r, db, 500, "ANALYSIS_ERROR", 0, <<>>)
    ELSE [redis |-> r, analyses |-> db,
          res |-> [AnalyzeResponse(200, "OK", 0, <<"analysis_viewed">>)
                      EXCEPT !.id = hit.id, !.cached = TRUE]]

\* the store and the response after the engine's result is known to be a
\* legal document: persist (create or update), record the event, answer
AnalyzePersist(r, t, db, req, existing, run) ==
    LET expiresAt == calculateExpiryDate(t, ExpiryDays)
        safeName == sanitizeCompanyName(
                        IF req.company_name # "" THEN req.company_name
                        ELSE run.result.detected_company)
        \* the row that update({ where: { id } }) changes
        current == {a \in db : \E e \in existing : a.id = e.id}
        stored ==
            IF existing # {}
            THEN [(CHOOSE a \in current : TRUE) EXCEPT
                      !.analysisData = run.result,
                      !.expiresAt = expiresAt,
                      !.companyName = safeName,
                      !.isPublic = req.add_to_library]
            ELSE [id |-> Cardinality(db) + 1, contentHash |-> req.contentHash,
                  analysisData |-> run.result, createdAt |-> t,
                  expiresAt |-> expiresAt, companyName |-> safeName,
                  isPublic |-> req.add_to_library, popularityScore |-> 0,
                  creatorTokenHash |-> Hmac(SESSION_SALT, req.creatorToken)]
    IN  IF existing = {} /\ UniqueViolation(db, req.contentHash)
        THEN AnalyzeRejected(r, db, 500, "ANALYSIS_ERROR", run.calls,
                             IF req.eventsDown THEN <<>> ELSE <<"error_occurred">>)
        ELSE IF req.eventsDown
        THEN [redis |-> r,
              analyses |-> (db \ current) \cup {stored},
              res |-> AnalyzeResponse(500, "ANALYSIS_ERROR", run.calls, <<>>)]
        ELSE [redis |-> r,
              analyses |-> (db \ current) \cup {stored},
              res |-> [AnalyzeResponse(200, "OK", run.calls, <<"analysis_created">>)
                          EXCEPT !.id = stored.id,
                                 !.cached = run.cached,
                                 !.creator_token = req.creatorToken,
                                 !.persisted = IF existing # {} THEN "update"
                                               ELSE "create"]]

\* A plausible slip: the result is stored whatever document_validation says.
AnalyzeEngineDoneStoresAll(run, t, db, req, existing) ==
    IF run.threw
    THEN AnalyzeRejected(run.r, db, 500, "ANALYSIS_ERROR", run.calls,
                         IF req.eventsDown THEN <<>> ELSE <<"error_occurred">>)
    ELSE AnalyzePersist(
             IF run.tokensUsed > 0 /\ ~run.cached
             THEN checkDailyBudget(run.r, t, run.tokensUsed,
                                   RegisterFailAt(req.failFrom)).r
             ELSE run.r,
             t, db, req, existing, run)

\* A plausible slip: the document check comes first, and the tokens of a
\* rejected document are not registered.
AnalyzeEngineDoneChecksFirst(run, t, db, req, existing) ==
    IF run.threw
    THEN AnalyzeRejected(run.r, db, 500, "ANALYSIS_ERROR", run.calls,
                         IF req.eventsDown THEN <<>> ELSE <<"error_occurred">>)
    ELSE IF ~run.result.is_legal_document
    THEN AnalyzeRejected(run.r, db, 400, "INVALID_DOCUMENT_TYPE", run.calls, <<>>)
    ELSE AnalyzePersist(
             IF run.tokensUsed > 0 /\ ~run.cached
             THEN checkDailyBudget(run.r, t, run.tokensUsed,
                                   RegisterFailAt(req.failFrom)).r
             ELSE run.r,
             t, db, req, existing, run)

\* after geminiAnalyzer.analyze has returned or thrown: register the tokens
\* of a model run with the budget, reject what is no legal document
AnalyzeEngineDone(run, t, db, req, existing) ==
    IF run.threw
    THEN AnalyzeRejected(run.r, db, 500, "ANALYSIS_ERROR", run.calls,
                         IF req.eventsDown THEN <<>> ELSE <<"error_occurred">>)
    ELSE IF ~run.result.is_legal_document
    THEN AnalyzeRejected(
             IF run.tokensUsed > 0 /\ ~run.cached
             THEN checkDailyBudget(run.r, t, run.tokensUsed,
                                   RegisterFailAt(req.failFrom)).r
             ELSE run.r,
             db, 400, "INVALID_DOCUMENT_TYPE", run.calls, <<>>)
    ELSE AnalyzePersist(
             IF run.tokensUsed > 0 /\ ~run.cached
             THEN checkDailyBudget(run.r, t, run.tokensUsed,
                                   RegisterFailAt(req.failFrom)).r
             ELSE run.r,
             t, db, req, existing, run)

\* the handler has reached its await of geminiAnalyzer.analyze
Pending == "PENDING"

\* after checkDailyBudget(): text validation, the lookup by contentHash, the
\* answer from the store or the way on to the engine
AnalyzeBudgetChecked(budget, t, db, req) ==
    LET existing == {a \in db : a.contentHash = req.contentHash}
        fresh == {a \in existing : NotExpired(a.expiresAt, t)}
    IN  IF budget.exceeded
        THEN AnalyzeRejected(budget.r, db, 503, "BUDGET_EXCEEDED", 0, <<>>)
        ELSE IF req.textError # "ok"
        THEN AnalyzeRejected(budget.r, db, 400, "INVALID_TEXT", 0, <<>>)
        ELSE IF fresh # {}
        THEN AnalyzeFromStore(budget.r, t, db, CHOOSE a \in fresh : TRUE, req)
        ELSE [redis |-> budget.r, analyses |-> db,
              res |-> AnalyzeResponse(0, Pending, 0, <<>>),
              existing |-> existing]

\* after checkRateLimit: the request schema, then the budget guard
AnalyzeRateChecked(rl, t, db, req) ==
    IF rl.exceeded
    THEN AnalyzeRejected(rl.r, db, 429, "RATE_LIMIT_EXCEEDED", 0, <<>>)
    ELSE IF ~req.accepted
    THEN AnalyzeRejected(rl.r, db, 400, "VALIDATION_ERROR", 0, <<>>)
    ELSE AnalyzeBudgetChecked(
             checkDailyBudget(rl.r, t, 0, IF req.failFrom <= 2 THEN 1 ELSE 0),
             t, db, req)

\* the request as the handler reads it: the body, the client, the token that
\* crypto.randomBytes(32) yields, and the pure functions of the text
\* eventsDown: prisma.analyticsEvent.create throws
AnalyzeRequest(ip, body, facts, creatorToken, script, failFrom, eventsDown) ==
    [ip |-> ip, text |-> body.text, company_name |-> body.company_name,
     add_to_library |-> body.add_to_library, contentHash |-> facts.hash,
     accepted |-> facts.accepted, textError |-> facts.error,
     creatorToken |-> creatorToken, script |-> script, failFrom |-> failFrom,
     eventsDown |-> eventsDown]

\* the handler from its start to its answer or to its await of the engine
AnalyzeBegin(r, t, db, req) ==
    AnalyzeRateChecked(
        checkRateLimit(r, t, req.ip, RateLimitPerMinute, req.failFrom <= 1),
        t, db, req)

\* the handler from its await of the engine to its answer
AnalyzeResume(begun, t, db, req) ==
    IF begun.res.code # Pending THEN begun
    ELSE AnalyzeEngineDone(
             analyze(begun.redis, t, req.text, req.script,
                     req.failFrom <= 3, req.failFrom <= 4),
             t, db, req, begun.existing)

\* POST /api/analyze
AnalyzePOST(r, t, db, req) == AnalyzeResume(AnalyzeBegin(r, t, db, req), t, db, req)

\* GET /api/analysis/[id]
FetchGET(r, t, db, sh, id, failFrom) ==
    LET key == <<CACHE_KEYS.SHARE, id>>
        found == {a \in db : a.id = id}
        analysis == CHOOSE a \in found : TRUE
        viewCount == IF id \in DOMAIN sh THEN sh[id] + 1 ELSE 1
        totalShareCount == 1
        scored == [analysis EXCEPT !.popularityScore =
                      calculatePopularityScore(viewCount, totalShareCount)]
        responseData == [id |-> analysis.id, analysis |-> analysis.analysisData,
                         created_at |-> analysis.createdAt,
                         expires_at |-> analysis.expiresAt,
                         view_count |-> viewCount,
                         company_name |-> analysis.companyName,
                         is_public |-> analysis.isPublic]
        Rejected(status, code) ==
            [redis |-> r, analyses |-> db, shares |-> sh,
             res |-> [status |-> status, code |-> code, id |-> id,
                      cached |-> FALSE, data |-> NoData]]
    IN  IF ~IsUuid(id) THEN Rejected(400, "INVALID_ID")
        ELSE IF failFrom > 1 /\ RedisExists(r, key)
        THEN [redis |-> r, analyses |-> db, shares |-> sh,
              res |-> [status |-> 200, code |-> "OK", id |-> id,
                       cached |-> TRUE, data |-> RedisGet(r, key)]]
        ELSE IF found = {} THEN Rejected(404, "NOT_FOUND")
        ELSE IF analysis.expiresAt < t THEN Rejected(410, "EXPIRED")
        ELSE [redis |-> IF failFrom <= 2 THEN r
                        ELSE RedisSetex(r, t, key, CACHE_TTL.SHARE, responseData),
              analyses |-> IF analysis.isPublic
                           THEN (db \ found) \cup {scored} ELSE db,
              shares |-> [k \in DOMAIN sh \cup {id} |->
                             IF k = id THEN viewCount ELSE sh[k]],
              res |-> [status |-> 200, code |-> "OK", id |-> id,
                       cached |-> FALSE, data |-> responseData]]

\* invalidateCache(CACHE_KEYS.SHARE + id); invalidateCache('tos:library:*'):
\* the model holds no library keys, and a failing command is swallowed
InvalidateShare(r, id, down) == IF down THEN r ELSE RedisDel(r, <<CACHE_KEYS.SHARE, id>>)

PublishResponse(status, code, id, company_name, is_public) ==
    [status |-> status, code |-> code, id |-> id,
     company_name |-> company_name, is_public |-> is_public]

\* POST /api/analysis/[id]/publish with the creator token (part_004)
PublishPOST(r, t, db, ip, id, company_name, add_to_library, creator_token, failFrom) ==
    LET rl == checkRateLimit(r, t, ip, RateLimitPerMinute, failFrom <= 1)
        found == {a \in db : a.id = id}
        analysis == CHOOSE a \in found : TRUE
        submittedHash == Hmac(SESSION_SALT, creator_token)
        updatedAnalysis == [analysis EXCEPT
                               !.companyName = sanitizeCompanyName(company_name),
                               !.isPublic = add_to_library]
        Rejected(status, code) ==
            [redis |-> rl.r, analyses |-> db,
             res |-> PublishResponse(status, code, id, "", FALSE)]
    IN  IF rl.exceeded THEN Rejected(429, "RATE_LIMIT_EXCEEDED")
        ELSE IF company_name = "" THEN Rejected(400, "INVALID_INPUT")
        ELSE IF creator_token = NoToken THEN Rejected(401, "UNAUTHORIZED")
        ELSE IF ~IsUuid(id) THEN Rejected(400, "INVALID_ID")
        ELSE IF found = {} THEN Rejected(404, "NOT_FOUND")
        ELSE IF analysis.expiresAt < t THEN Rejected(410, "EXPIRED")
        ELSE IF analysis.creatorTokenHash = <<>> THEN Rejected(403, "FORBIDDEN")
        ELSE IF submittedHash # analysis.creatorTokenHash
        THEN Rejected(401, "UNAUTHORIZED")
        ELSE [redis |-> InvalidateShare(rl.r, id, failFrom <= 2),
              analyses |-> (db \ found) \cup {updatedAnalysis},
              res |-> PublishResponse(200, "OK", id, updatedAnalysis.companyName,
                                      updatedAnalysis.isPublic)]

\* POST /api/analysis/[id]/publish as route.ts defines it: no rate limit
\* and no creator token
PublishLegacyPOST(r, t, db, id, company_name, add_to_library, failFrom) ==
    LET found == {a \in db : a.id = id}
        analysis == CHOOSE a \in found : TRUE
        updatedAnalysis == [analysis EXCEPT !.companyName = company_name,
                                            !.isPublic = add_to_library]
        Rejected(status, code) ==
            [redis |-> r, analyses |-> db,
             res |-> PublishResponse(status, code, id, "", FALSE)]
    IN  IF company_name = "" THEN Rejected(400, "INVALID_INPUT")
        ELSE IF ~IsUuid(id) THEN Rejected(400, "INVALID_ID")
        ELSE IF found = {} THEN Rejected(404, "NOT_FOUND")
        ELSE IF analysis.expiresAt < t THEN Rejected(410, "EXPIRED")
        ELSE [redis |-> InvalidateShare(r, id, failFrom <= 1),
              analyses |-> (db \ found) \cup {updatedAnalysis},
              res |-> PublishResponse(200, "OK", id, updatedAnalysis.companyName,
                                      updatedAnalysis.isPublic)]

(***************************************************************************)
(* Idle values of the variable groups.                                     *)
(***************************************************************************)
NoKeys == [k \in {} |-> 0]

NoRet == [op |-> "none"]

EngIdle == [pc |-> "IDLE"]

NormIdle == [step |-> 0, input |-> <<>>, once |-> <<>>, twice |-> <<>>]

\* the clients that may have an analyze request in progress at one time
MaxClients == 2

Clients == 1..MaxClients

NoRequest == [pc |-> "idle"]

StoreIdle ==
    /\ now = 0 /\ redis = NoKeys /\ analyses = {} /\ shares = NoKeys /\ served = 0
    /\ inflight = [c \in Clients |-> NoRequest]
    /\ window = NoKeys

(***************************************************************************)
(* SpecNorm: normalizeText applied once and twice to a bounded string.     *)
(***************************************************************************)
NormAlphabet == {"a", "B", Space, Tab, "@", "."}

NormStrings == UNION {[1..n -> NormAlphabet] : n \in 0..MaxLen}

InitNorm ==
    /\ StoreIdle
    /\ ret = NoRet
    /\ eng = EngIdle
    /\ \E x \in NormStrings : norm = [NormIdle EXCEPT !.input = x]

NormalizeOnce ==
    /\ norm.step = 0
    /\ norm' = [norm EXCEPT !.step = 1, !.once = normalizeText(norm.input)]
    /\ UNCHANGED <<window, inflight, served, now, redis, analyses, shares, ret, eng>>

NormalizeTwice ==
    /\ norm.step = 1
    /\ norm' = [norm EXCEPT !.step = 2, !.twice = normalizeText(norm.once)]
    /\ UNCHANGED <<window, inflight, served, now, redis, analyses, shares, ret, eng>>

NextNorm == NormalizeOnce \/ NormalizeTwice

SpecNorm == InitNorm /\ [][NextNorm]_vars

(***************************************************************************)
(* SpecGuard: the rate guard and the budget guard called directly, with a  *)
(* backend that may throw on any command, at one instant of the clock.     *)
(***************************************************************************)
MaxLimit == 2

\* a counter is incremented until it is one past the largest limit
MaxCount == MaxLimit + 1

MaxTokens == 2

\* the daily counter is raised until it is past the budget
MaxUsed == DailyTokenBudget + 1

\* the client identities (getClientIP); the counters of two identities never
\* share a key, so one identity exercises every path of the guards
IPs == {"203.0.113.7"}

CounterBelow(r, key, cap) ==
    IF RedisExists(r, key) THEN RedisGet(r, key) < cap ELSE TRUE

InitGuard ==
    /\ StoreIdle
    /\ ret = NoRet
    /\ eng = EngIdle
    /\ norm = NormIdle

GuardCheckRateLimit ==
    \E ip \in IPs, limit \in 1..MaxLimit, down \in BOOLEAN :
        LET res == checkRateLimit(redis, now, ip, limit, down)
        IN  /\ CounterBelow(redis, <<CACHE_KEYS.RATE_LIMIT, ip>>, MaxCount)
            /\ redis' = res.r
            /\ ret' = [op |-> "checkRateLimit", limit |-> limit,
                       down |-> down, exceeded |-> res.exceeded,
                       threw |-> res.threw]
            /\ UNCHANGED <<window, inflight, served, now, analyses, shares, eng, norm>>

GuardCheckReadRateLimit ==
    \E ip \in IPs, limit \in 1..MaxLimit, down \in BOOLEAN :
        LET res == checkReadRateLimit(redis, now, ip, limit, down)
        IN  /\ CounterBelow(redis, <<CACHE_KEYS.RATE_LIMIT_READ, ip>>, MaxCount)
            /\ redis' = res.r
            /\ ret' = [op |-> "checkReadRateLimit", limit |-> limit,
                       down |-> down, exceeded |-> res.exceeded,
                       threw |-> res.threw]
            /\ UNCHANGED <<window, inflight, served, now, analyses, shares, eng, norm>>

GuardCheckDailyBudget ==
    \E tokensToAdd \in 0..MaxTokens, failAt \in 0..4 :
        LET res == checkDailyBudget(redis, now, tokensToAdd, failAt)
            cmds == BudgetCommands(now, tokensToAdd)
        IN  /\ CounterBelow(redis, <<CACHE_KEYS.DAILY_TOKENS, UtcDate(now)>>,
                            MaxUsed - tokensToAdd + 1)
            /\ failAt <= Len(cmds)
            /\ redis' = res.r
            /\ ret' = [op |-> "checkDailyBudget", tokensToAdd |-> tokensToAdd,
                       down |-> failAt > 0, exceeded |-> res.exceeded,
                       used |-> res.used, limit |-> res.limit,
                       threw |-> res.threw]
            /\ UNCHANGED <<window, inflight, served, now, analyses, shares, eng, norm>>

NextGuard ==
    \/ GuardCheckRateLimit
    \/ GuardCheckReadRateLimit
    \/ GuardCheckDailyBudget

SpecGuard == InitGuard /\ [][NextGuard]_vars

GuardOps == {"checkRateLimit", "checkReadRateLimit", "checkDailyBudget"}

(***************************************************************************)
(* Spec: the routes served one request at a time over the shared stores,   *)
(* with the clock advancing between requests.  A run holds at most         *)
(* MaxRequests requests and MaxTicks steps of the clock.                   *)
(***************************************************************************)
MaxRequests == 3

\* a minute (the rate window) and twenty days (past the 7 days of the
\* analysis cache; twice: past the 30 days of a record)
ClockSteps == {60, 20 * SecondsPerDay}

\* the analyze requests: text, company_name ("": absent) and add_to_library
AnalyzeRequests ==
    { [text |-> TextTerms, company_name |-> "", add_to_library |-> FALSE],
      [text |-> TextTermsVariant, company_name |-> "Globex", add_to_library |-> TRUE],
      [text |-> TextCookie, company_name |-> "", add_to_library |-> TRUE],
      [text |-> TextShort, company_name |-> "", add_to_library |-> FALSE],
      [text |-> TextNineWords, company_name |-> "", add_to_library |-> FALSE] }

\* where the backend may go down during an analyze request: at the rate
\* guard, the budget guard, the cache read, the cache write, the budget
\* registration, or not at all
AnalyzeFailPoints == {1, 2, 3, 4, 5, 9}

\* past the last Redis command of the handler
NoRedisFailure == 9

\* the publish requests: company_name ("": absent) and add_to_library
PublishRequests ==
    { [company_name |-> "Acme", add_to_library |-> TRUE],
      [company_name |-> "Acme", add_to_library |-> FALSE],
      [company_name |-> "", add_to_library |-> TRUE] }

\* the ids a client may ask for: malformed, and the first two records
RequestIds == 0..2

Init ==
    /\ StoreIdle
    /\ ret = NoRet
    /\ eng = EngIdle
    /\ norm = NormIdle

\* the id of the record that holds the fingerprint and has not expired; 0: none
Unexpired(db, t, contentHash) ==
    LET fresh == {a \in db : a.contentHash = contentHash /\ a.expiresAt > t}
    IN  IF fresh = {} THEN 0 ELSE (CHOOSE a \in fresh : TRUE).id

\* the tokens counted for the day of t
DailyTokens(r, t) ==
    IF RedisExists(r, <<CACHE_KEYS.DAILY_TOKENS, UtcDate(t)>>)
    THEN RedisGet(r, <<CACHE_KEYS.DAILY_TOKENS, UtcDate(t)>>)
    ELSE 0

\* the response, and what the request did to the store and to the counter
AnalyzeServed(out, req) ==
    /\ redis' = out.redis
    /\ analyses' = out.analyses
    /\ ret' = [op |-> "analyze", text |-> req.text,
               dup |-> Unexpired(analyses, now, req.contentHash),
               eventsDown |-> req.eventsDown,
               wrote |-> out.analyses # analyses,
               spent |-> DailyTokens(out.redis, now) - DailyTokens(redis, now),
               res |-> out.res]

Analyze ==
    /\ served < MaxRequests
    /\ \E ip \in IPs, body \in AnalyzeRequests, script \in Scripts,
          failFrom \in AnalyzeFailPoints, eventsDown \in BOOLEAN :
          /\ eventsDown => failFrom = NoRedisFailure
          /\ AnalyzeServed(
                 AnalyzePOST(redis, now, analyses,
                             AnalyzeRequest(ip, body, TextFacts[body.text],
                                            FreshToken(served), script, failFrom,
                                            eventsDown)),
                 AnalyzeRequest(ip, body, TextFacts[body.text],
                                FreshToken(served), script, failFrom,
                                eventsDown))
    /\ served' = served + 1
    /\ UNCHANGED <<window, inflight, now, shares, eng, norm>>

Fetch ==
    /\ served < MaxRequests
    /\ \E id \in RequestIds, failFrom \in 1..3 :
          LET out == FetchGET(redis, now, analyses, shares, id, failFrom)
          IN  /\ redis' = out.redis
              /\ analyses' = out.analyses
              /\ shares' = out.shares
              /\ ret' = [op |-> "fetch", res |-> out.res,
                         viewsBefore |-> IF id \in DOMAIN shares THEN shares[id] ELSE 0]
    /\ served' = served + 1
    /\ UNCHANGED <<window, inflight, now, eng, norm>>

\* what a publish request is aimed at, and whether its token is the owner's
PublishTarget(db, t, id, creator_token) ==
    LET found == {a \in db : a.id = id}
        analysis == CHOOSE a \in found : TRUE
    IN  IF found = {} THEN [record |-> "absent", tokenMatches |-> FALSE]
        ELSE [record |-> IF analysis.expiresAt < t THEN "expired" ELSE "current",
              tokenMatches |->
                  Hmac(SESSION_SALT, creator_token) = analysis.creatorTokenHash]

Publish ==
    /\ served < MaxRequests
    /\ \E ip \in IPs, id \in RequestIds, req \in PublishRequests,
          creator_token \in 0..served, failFrom \in 1..3 :
          LET out == PublishPOST(redis, now, analyses, ip, id, req.company_name,
                                 req.add_to_library, creator_token, failFrom)
          IN  /\ redis' = out.redis
              /\ analyses' = out.analyses
              /\ ret' = [op |-> "publish", handler |-> "part_004",
                         target |-> PublishTarget(analyses, now, id, creator_token),
                         res |-> out.res]
    /\ served' = served + 1
    /\ UNCHANGED <<window, inflight, now, shares, eng, norm>>

PublishLegacy ==
    /\ served < MaxRequests
    /\ \E id \in RequestIds, req \in PublishRequests,
          creator_token \in 0..served, failFrom \in 1..2 :
          LET out == PublishLegacyPOST(redis, now, analyses, id, req.company_name,
                                       req.add_to_library, failFrom)
          IN  /\ redis' = out.redis
              /\ analyses' = out.analyses
              /\ ret' = [op |-> "publish", handler |-> "route.ts",
                         target |-> PublishTarget(analyses, now, id, creator_token),
                         res |-> out.res]
    /\ served' = served + 1
    /\ UNCHANGED <<window, inflight, now, shares, eng, norm>>

Tick ==
    /\ \E d \in ClockSteps :
          /\ now + d \in Timeline(ClockSteps, MaxTicks)
          /\ now' = now + d
          /\ redis' = Purge(redis, now + d)
    /\ ret' = [op |-> "tick"]
    /\ UNCHANGED <<window, inflight, analyses, shares, eng, norm, served>>

Next ==
    \/ Analyze
    \/ Fetch
    \/ Publish
    \/ PublishLegacy
    \/ Tick

Spec == Init /\ [][Next]_vars

(***************************************************************************)
(* C1  Dedup: an analyze request whose text has the fingerprint of a       *)
(*     record that an earlier request stored and that has not expired      *)
(*     (expiresAt later than the request) makes no model call, and unless  *)
(*     the rate guard or the budget guard rejects it, it returns that      *)
(*     record's id with cached = TRUE and stores nothing.  (Requests whose *)
(*     analytics event cannot be recorded are the subject of C18.)         *)
(***************************************************************************)
C1_DedupReturnsStoredRecord ==
    (ret.op = "analyze" /\ ret.dup # 0 /\ ~ret.eventsDown) =>
        /\ ret.res.modelCalls = 0
        /\ ret.res.code \in {"OK", "RATE_LIMIT_EXCEEDED", "BUDGET_EXCEEDED"}
        /\ ret.res.code = "OK" =>
              /\ ret.res.id = ret.dup
              /\ ret.res.cached
              /\ ret.res.persisted = "no"

\* The second of two requests carried the document of the first (which did
\* not ask for the library) in other case and spacing, and was answered
\* from the store.
C1_VariantAnsweredFromStore ==
    /\ ret.op = "analyze"
    /\ ret.text = TextTermsVariant
    /\ ret.dup # 0
    /\ ret.res.code = "OK"
    /\ ret.res.cached
    /\ served = 2
    /\ \E a \in analyses : a.id = ret.dup /\ ~a.isPublic

(***************************************************************************)
(* C2  A fetch-by-id of a record whose expiresAt is in the past always     *)
(*     returns 410 EXPIRED and never the record's payload, whatever        *)
(*     fetches, publishes and analyses came before.                        *)
(* The GET handler answers from the share cache before it looks at the     *)
(* record, and an entry written by a fetch lives 30 days from that fetch.  *)
(***************************************************************************)
C2_ExpiredFetchReturns410 ==
    (/\ ret.op = "fetch"
     /\ \E a \in analyses : a.id = ret.res.id /\ a.expiresAt < now)
        => (ret.res.status = 410 /\ ret.res.data = NoData)

(***************************************************************************)
(* C3  A well-formed publish request that the rate guard admits, for an    *)
(*     existing record that has not expired, with an ownership token whose *)
(*     salted digest differs from the stored one (or with no token), is    *)
(*     rejected with UNAUTHORIZED.                                         *)
(* The handler in part_004 does so; the POST handler in route.ts reads no  *)
(* token at all.                                                           *)
(***************************************************************************)
C3_WrongTokenUnauthorized ==
    (/\ ret.op = "publish"
     /\ ret.target.record = "current"
     /\ ~ret.target.tokenMatches
     /\ ret.res.code \notin {"RATE_LIMIT_EXCEEDED", "INVALID_INPUT"})
        => ret.res.code = "UNAUTHORIZED"

(***************************************************************************)
(* C4  After every analyze request that persists a result (create or       *)
(*     overwrite), the stored creatorTokenHash of the returned id is the   *)
(*     salted digest of the creator token in the response.                 *)
(* The update branch of the handler writes no creatorTokenHash.            *)
(***************************************************************************)
C4_StoredDigestIsOfReturnedToken ==
    (ret.op = "analyze" /\ ret.res.persisted # "no") =>
        \E a \in analyses :
            /\ a.id = ret.res.id
            /\ a.creatorTokenHash = Hmac(SESSION_SALT, ret.res.creator_token)

(***************************************************************************)
(* C8  Fail-closed: whenever the counting backend raises an error during   *)
(*     the call, checkRateLimit, checkReadRateLimit and checkDailyBudget   *)
(*     return exceeded = TRUE, for every identity, limit and tokensToAdd;  *)
(*     none of them throws or reports not-exceeded.                        *)
(***************************************************************************)
C8_FailClosed ==
    (ret.op \in GuardOps /\ ret.down) => (ret.exceeded /\ ~ret.threw)

\* Each of the three checks has run against a failing backend; for the
\* budget, with tokens to add and the failure after the first increment.
C8_RateLimitBackendDown == ret.op = "checkRateLimit" /\ ret.down

C8_BudgetBackendDown ==
    /\ ret.op = "checkDailyBudget"
    /\ ret.down
    /\ ret.tokensToAdd > 0
    /\ RedisExists(redis, <<CACHE_KEYS.DAILY_TOKENS, UtcDate(now)>>)

(***************************************************************************)
(* SpecEngine: one run of analyzeWithClaude on a document, the model       *)
(* answering each call with any of the Responses.                          *)
(***************************************************************************)
Docs ==
    [words : {0, 12, ChunkThreshold, ChunkThreshold + 1}, lead : {FALSE}, trail : {FALSE}]
        \cup [words : {2 * ChunkWords - 1}, lead : {TRUE}, trail : {FALSE}]

InitEngine ==
    /\ StoreIdle
    /\ ret = NoRet
    /\ norm = NormIdle
    /\ \E doc \in Docs : eng = EngInit(doc)

EngineStart ==
    /\ eng.pc = "IDLE"
    /\ eng' = analyzeWithClaude(eng)
    /\ UNCHANGED <<window, inflight, served, now, redis, analyses, shares, ret, norm>>

EngineModelCall ==
    /\ eng.pc = "CALL"
    /\ \E resp \in Responses : eng' = SinglePassCall(eng, resp)
    /\ UNCHANGED <<window, inflight, served, now, redis, analyses, shares, ret, norm>>

EngineBackoff ==
    /\ eng.pc = "BACKOFF"
    /\ eng' = SinglePassBackoff(eng)
    /\ UNCHANGED <<window, inflight, served, now, redis, analyses, shares, ret, norm>>

EngineChunkPause ==
    /\ eng.pc = "PAUSE"
    /\ eng' = ChunkPause(eng)
    /\ UNCHANGED <<window, inflight, served, now, redis, analyses, shares, ret, norm>>

EngineSynthesize ==
    /\ eng.pc = "SYNTH"
    /\ \E resp \in Responses : eng' = SynthesizeCall(eng, resp)
    /\ UNCHANGED <<window, inflight, served, now, redis, analyses, shares, ret, norm>>

\* the end of ClaudeAnalyzer.analyze: the result of a finished run is cached
\* under the document's fingerprint and returned, the error of a failed run
\* is thrown to the caller
EngineReturn ==
    /\ eng.pc \in {"DONE", "FAILED"}
    /\ ret = NoRet
    /\ \E setDown \in BOOLEAN :
          LET out == analyzeFinished(redis, now, <<CACHE_KEYS.ANALYSIS, eng.doc>>, eng,
                                     EngineOutcome(eng).calls, setDown)
          IN  /\ redis' = out.r
              /\ ret' = [op |-> "analyze", threw |-> out.threw, setDown |-> setDown,
                         tokensUsed |-> out.tokensUsed]
    /\ UNCHANGED <<window, inflight, served, now, analyses, shares, eng, norm>>

NextEngine ==
    \/ EngineStart
    \/ EngineModelCall
    \/ EngineBackoff
    \/ EngineChunkPause
    \/ EngineSynthesize
    \/ EngineReturn

SpecEngine == InitEngine /\ [][NextEngine]_vars

\* Every step of the run is the continuation of an awaited call or timer
\* that has settled, which the event loop runs: a step that stays enabled
\* is eventually taken.
SpecEngineLive == SpecEngine /\ WF_vars(NextEngine)

\* the model calls and the sleeps of the run so far, in order
CallsOf(log) == SelectSeq(log, LAMBDA x : x.ev = "call")

SleepsOf(log) == SelectSeq(log, LAMBDA x : x.ev = "sleep")

DelaysOf(log) == [k \in 1..Len(SleepsOf(log)) |-> SleepsOf(log)[k].ms]

AllTransient(calls) == \A k \in 1..Len(calls) : calls[k].resp \in TransientKinds

(***************************************************************************)
(* C5  A schema-violating model output never triggers a retry: after a     *)
(*     schema violation on any attempt the engine has FAILED with no       *)
(*     further model call and no backoff sleep, and when the first         *)
(*     response of a single-pass analysis violates the schema exactly one  *)
(*     model call has been made.                                           *)
(***************************************************************************)
C5_SchemaViolationNeverRetried ==
    /\ \A k \in 1..Len(eng.log) :
          (eng.log[k].ev = "call" /\ eng.log[k].resp = "schema")
              => (k = Len(eng.log) /\ eng.pc = "FAILED")
    /\ (/\ eng.mode = "SINGLE_PASS"
        /\ eng.log # <<>>
        /\ eng.log[1].resp = "schema")
           => (eng.pc = "FAILED" /\ Len(CallsOf(eng.log)) = 1)

\* A schema violation on a later attempt of a single-pass analysis.
C5_SchemaViolationOnRetry ==
    /\ eng.mode = "SINGLE_PASS"
    /\ Len(eng.log) = 3
    /\ eng.log[3].ev = "call"
    /\ eng.log[3].resp = "schema"

(***************************************************************************)
(* C6  When every model call of a single-pass analysis fails with a        *)
(*     non-schema failure the engine makes exactly 3 model calls and then  *)
(*     fails; a success on attempt k <= 3 ends the loop with no further    *)
(*     call.                                                               *)
(***************************************************************************)
C6_ThreeAttemptsThenFail ==
    eng.mode = "SINGLE_PASS" =>
        LET calls == CallsOf(eng.log)
        IN  /\ Len(calls) <= 3
            /\ (eng.pc = "FAILED" /\ AllTransient(calls)) => Len(calls) = 3
            /\ (Len(calls) = 3 /\ AllTransient(calls)) => eng.pc = "FAILED"
            /\ \A k \in 1..Len(calls) :
                  calls[k].resp = "ok" => (k = Len(calls) /\ eng.pc = "DONE")
            /\ eng.pc = "DONE" => (calls # <<>> /\ calls[Len(calls)].resp = "ok")

\* Three transient failures in a row have ended a single-pass analysis.
C6_AllAttemptsFailed ==
    /\ eng.mode = "SINGLE_PASS"
    /\ eng.pc = "FAILED"
    /\ Len(CallsOf(eng.log)) = 3
    /\ AllTransient(CallsOf(eng.log))

(***************************************************************************)
(* C7  (as written) A persistently failing transient model call is         *)
(*     retried exactly 3 times with delays of 1s, 2s and 4s before the     *)
(*     engine gives up.                                                    *)
(***************************************************************************)
C7_ThreeRetriesOneTwoFour ==
    (/\ eng.mode = "SINGLE_PASS"
     /\ eng.pc = "FAILED"
     /\ AllTransient(CallsOf(eng.log)))
        => DelaysOf(eng.log) = <<1000, 2000, 4000>>

(***************************************************************************)
(* C7  (amended) A persistently failing transient model call is attempted  *)
(*     exactly 3 times in all, with delays of 1s and 2s between the        *)
(*     attempts and none after the last; every backoff delay is            *)
(*     min(1000 * 2^k, 10000) for the k-th retry.                          *)
(***************************************************************************)
C7_ThreeAttemptsOneTwo ==
    eng.mode = "SINGLE_PASS" =>
        /\ \A k \in 1..Len(DelaysOf(eng.log)) :
              /\ DelaysOf(eng.log)[k] = 1000 * Pow2(k - 1)
              /\ DelaysOf(eng.log)[k] <= 10000
        /\ (eng.pc = "FAILED" /\ AllTransient(CallsOf(eng.log)))
              => (/\ Len(CallsOf(eng.log)) = 3
                  /\ DelaysOf(eng.log) = <<1000, 2000>>
                  /\ eng.log[Len(eng.log)].ev = "call")

\* The engine has given up after its backoff sleeps.
C7_GaveUpAfterBackoff ==
    /\ eng.mode = "SINGLE_PASS"
    /\ eng.pc = "FAILED"
    /\ AllTransient(CallsOf(eng.log))
    /\ Len(SleepsOf(eng.log)) = 2

(***************************************************************************)
(* C9  The engine routes a document to CHUNKED iff its word count is       *)
(*     strictly greater than 45,000: 45,001 words go to CHUNKED and        *)
(*     45,000 words go to SINGLE_PASS.                                     *)
(***************************************************************************)
C9_ChunkedIffOver45000 ==
    eng.pc # "IDLE" =>
        /\ eng.mode = "CHUNKED" <=> eng.doc.words > 45000
        /\ eng.mode = "SINGLE_PASS" <=> eng.doc.words <= 45000
        /\ eng.doc.words = 45001 => eng.mode = "CHUNKED"
        /\ eng.doc.words = 45000 => eng.mode = "SINGLE_PASS"

\* A document of exactly 45,001 words has been routed.
C9_Routed45001 == eng.doc.words = 45001 /\ eng.mode = "CHUNKED" /\ eng.pc = "CALL"

(***************************************************************************)
(* C10  Normalization is idempotent: for every input x,                    *)
(*      normalizeText(normalizeText(x)) = normalizeText(x).                *)
(* The code strips the special characters after it has collapsed the       *)
(* whitespace, so a stripped character between two spaces leaves a double  *)
(* space that only a second pass collapses: "a @ a" -> "a  a" -> "a a".    *)
(***************************************************************************)
C10_NormalizeIdempotent == norm.step = 2 => norm.twice = norm.once

\* The case of the claim is reached: a string with a stripped character
\* between whitespace has been normalized twice.
C10_StrippedBetweenSpaces ==
    /\ norm.step = 2
    /\ \E i \in 1..(Len(norm.input) - 2) :
          /\ IsSpace(norm.input[i])
          /\ ~IsKept(norm.input[i + 1])
          /\ IsSpace(norm.input[i + 2])

(***************************************************************************)
(* SpecHash: hashContent applied to a bounded string and to one variation  *)
(* of it: other letter case, whitespace added at the ends, a whitespace    *)
(* run made longer, or a character outside the whitelist put in.           *)
(***************************************************************************)
\* the same letter in the other case
SwapCase(c) ==
    CASE c = "a" -> "A"
      [] c = "A" -> "a"
      [] c = "b" -> "B"
      [] c = "B" -> "b"
      [] OTHER -> c

\* s with the character c put in after position i
InsertAt(s, i, c) == SubSeq(s, 1, i) \o <<c>> \o SubSeq(s, i + 1, Len(s))

\* nothing, or one whitespace character
Pads == {<<>>} \cup {<<c>> : c \in WhitespaceChars}

\* characters that the class [^\w\s.,!?;:()\-] matches
StrippedChars == {"@"}

\* hashContent(a) and hashContent(b) of a text a and its variation b
HashPair(kind, a, b) ==
    [op |-> "hashContent", kind |-> kind, a |-> a, b |-> b,
     ha |-> hashContent(a), hb |-> hashContent(b)]

HashOtherCase ==
    /\ ret.op = "none"
    /\ \E S \in SUBSET {i \in 1..Len(norm.input) : SwapCase(norm.input[i]) # norm.input[i]} :
          /\ S # {}
          /\ ret' = HashPair("case", norm.input,
                             [i \in 1..Len(norm.input) |->
                                 IF i \in S THEN SwapCase(norm.input[i])
                                 ELSE norm.input[i]])
    /\ UNCHANGED <<window, inflight, served, now, redis, analyses, shares, eng, norm>>

HashPadded ==
    /\ ret.op = "none"
    /\ \E lead \in Pads, trail \in Pads :
          /\ lead \o trail # <<>>
          /\ ret' = HashPair("pad", norm.input, lead \o norm.input \o trail)
    /\ UNCHANGED <<window, inflight, served, now, redis, analyses, shares, eng, norm>>

HashStretched ==
    /\ ret.op = "none"
    /\ \E i \in 1..Len(norm.input), c \in WhitespaceChars :
          /\ IsSpace(norm.input[i])
          /\ ret' = HashPair("stretch", norm.input, InsertAt(norm.input, i, c))
    /\ UNCHANGED <<window, inflight, served, now, redis, analyses, shares, eng, norm>>

HashStripped ==
    /\ ret.op = "none"
    /\ \E i \in 0..Len(norm.input), c \in StrippedChars :
          ret' = HashPair("strip", norm.input, InsertAt(norm.input, i, c))
    /\ UNCHANGED <<window, inflight, served, now, redis, analyses, shares, eng, norm>>

NextHash ==
    \/ HashOtherCase
    \/ HashPadded
    \/ HashStretched
    \/ HashStripped

SpecHash == InitNorm /\ [][NextHash]_vars

(***************************************************************************)
(* C11  Two inputs that differ only in letter case, in leading or trailing *)
(*      whitespace, or in the length of a whitespace run have the same     *)
(*      fingerprint (hashContent).                                         *)
(***************************************************************************)
C11_SameFingerprint ==
    (ret.op = "hashContent" /\ ret.kind \in {"case", "pad", "stretch"})
        => ret.ha = ret.hb

\* A whitespace run between two words was made longer, and the two texts
\* got one fingerprint.
C11_InnerRunStretched ==
    /\ ret.op = "hashContent"
    /\ ret.kind = "stretch"
    /\ Len(ret.a) = 3
    /\ ~IsSpace(ret.a[1]) /\ IsSpace(ret.a[2]) /\ ~IsSpace(ret.a[3])
    /\ Len(ret.b) = 4
    /\ ret.ha = ret.hb

(***************************************************************************)
(* C12  Two inputs that differ only in the presence of characters outside  *)
(*      the normalizer's whitelist, at any position including between      *)
(*      whitespace, have the same fingerprint.                             *)
(* The whitespace is collapsed before the characters are stripped: a       *)
(* stripped character between two spaces leaves both spaces in the         *)
(* normal form, "a @ b" -> "a  b", while "a  b" -> "a b".                  *)
(***************************************************************************)
C12_StrippedSameFingerprint ==
    (ret.op = "hashContent" /\ ret.kind = "strip") => ret.ha = ret.hb

(***************************************************************************)
(* The claims on the analyze pipeline, checked under Spec.                 *)
(***************************************************************************)
\* the length and the word count of the request texts, tabulated once
TextShape ==
    [x \in AllTexts |-> [chars |-> Len(x), words |-> countWords(x)]] @@ <<>>

\* 50 to 500,000 characters and 10 to 50,000 words
InBounds(shape) ==
    /\ shape.chars >= 50 /\ shape.chars <= 500000
    /\ shape.words >= 10 /\ shape.words <= 50000

ValidationSignals == {"VALIDATION_ERROR", "INVALID_TEXT"}

GuardSignals == {"RATE_LIMIT_EXCEEDED", "BUDGET_EXCEEDED"}

(***************************************************************************)
(* C13  A request that the guards admit is accepted by text validation iff *)
(*      its text has 50 to 500,000 characters and 10 to 50,000 words, and  *)
(*      a text outside these bounds (one of 9 words) is rejected with the  *)
(*      code VALIDATION_ERROR; a text of 12 words is accepted.             *)
(* The handler answers VALIDATION_ERROR only for what the request schema   *)
(* refuses (the character count); the word count is tested by              *)
(* validateTOSText, whose rejection carries the code INVALID_TEXT.         *)
(***************************************************************************)
C13_OutOfBoundsIsValidationError ==
    (ret.op = "analyze" /\ ret.res.code \notin GuardSignals) =>
        /\ InBounds(TextShape[ret.text]) => ret.res.code \notin ValidationSignals
        /\ ~InBounds(TextShape[ret.text]) => ret.res.code = "VALIDATION_ERROR"

(***************************************************************************)
(* C14  When the engine reports is_legal_document = false the request is   *)
(*      rejected with INVALID_DOCUMENT_TYPE and nothing is persisted: no   *)
(*      record is created or modified, and no result for the fingerprint   *)
(*      is retained for later requests.                                    *)
(* ClaudeAnalyzer.analyze writes every result to the analysis cache before *)
(* the handler looks at is_legal_document.                                 *)
(***************************************************************************)
C14_NotLegalLeavesNothing ==
    (ret.op = "analyze" /\ ret.res.code = "INVALID_DOCUMENT_TYPE") =>
        /\ ~ret.wrote
        /\ ~RedisExists(redis, <<CACHE_KEYS.ANALYSIS, TextFacts[ret.text].hash>>)

(***************************************************************************)
(* C15  The checks are applied in the order rate limit, text validation,   *)
(*      daily budget: a request with a text out of bounds that the rate    *)
(*      guard admits is rejected with the validation signal whatever the   *)
(*      budget, and no rejection by one of the three checks invokes the    *)
(*      engine or writes the store.                                        *)
(* The handler tests the word count (validateTOSText) after the budget.    *)
(***************************************************************************)
C15_ValidationBeforeBudget ==
    ret.op = "analyze" =>
        /\ (/\ ~InBounds(TextShape[ret.text])
            /\ ret.res.code # "RATE_LIMIT_EXCEEDED")
              => ret.res.code \in ValidationSignals
        /\ ret.res.code \in GuardSignals \cup ValidationSignals
              => (ret.res.modelCalls = 0 /\ ~ret.wrote)

(***************************************************************************)
(* C16  When the store holds a non-expired record for the request's        *)
(*      fingerprint, the analyze request never invokes the engine, never   *)
(*      writes the record and never adds to the budget counter; and when   *)
(*      the guards admit it (and its event is recorded) it returns that    *)
(*      record marked cached and records an analysis_viewed event.         *)
(***************************************************************************)
C16_StoreHitSkipsEngine ==
    (ret.op = "analyze" /\ ret.dup # 0) =>
        /\ ret.res.modelCalls = 0
        /\ ~ret.wrote
        /\ ret.spent = 0
        /\ (ret.res.code \notin GuardSignals /\ ~ret.eventsDown) =>
              /\ ret.res.status = 200
              /\ ret.res.id = ret.dup
              /\ ret.res.cached
              /\ ret.res.events = <<"analysis_viewed">>

\* A request met its record in the store while the day's counter stood
\* above zero and the engine's cache had already lost the result.
C16_ViewedWithSpentBudget ==
    /\ ret.op = "analyze"
    /\ ret.dup # 0
    /\ ret.res.events = <<"analysis_viewed">>
    /\ DailyTokens(redis, now) > 0
    /\ ~RedisExists(redis, <<CACHE_KEYS.ANALYSIS, TextFacts[ret.text].hash>>)

(***************************************************************************)
(* C17  The daily token counter is increased by an analyze request only    *)
(*      when that request made an actual (non-cached) engine call:         *)
(*      requests served from the store or from the engine's cache, and     *)
(*      requests rejected before the engine, leave the counter unchanged.  *)
(***************************************************************************)
C17_BudgetOnlyOnEngineCall ==
    ret.op = "analyze" =>
        /\ ret.spent >= 0
        /\ ret.spent > 0 => (ret.res.modelCalls > 0 /\ ~ret.res.cached)
        /\ ret.res.modelCalls = 0 => ret.spent = 0
        /\ ret.res.code \in GuardSignals \cup ValidationSignals => ret.spent = 0

\* A request was answered from the engine's cache while the day's counter
\* held the tokens of the request that filled the cache.
C17_EngineCacheHit ==
    /\ ret.op = "analyze"
    /\ ret.dup = 0
    /\ ret.res.modelCalls = 0
    /\ ret.res.code \in {"OK", "INVALID_DOCUMENT_TYPE"}
    /\ ret.spent = 0
    /\ DailyTokens(redis, now) > 0

(***************************************************************************)
(* C18  A failure to record an analytics event never fails the request:    *)
(*      when recording the viewed or the created event fails, the request  *)
(*      still returns its success response, with the record and, on        *)
(*      creation, the ownership token.                                     *)
(* The two analyticsEvent.create calls are awaited inside the handler's    *)
(* try block: a failure lands in its catch, which answers 500.             *)
(***************************************************************************)
C18_EventFailureSwallowed ==
    (ret.op = "analyze" /\ ret.eventsDown) =>
        /\ (ret.dup # 0 /\ ret.res.code \notin GuardSignals)
              => (ret.res.status = 200 /\ ret.res.id = ret.dup)
        /\ ret.wrote
              => (ret.res.status = 200 /\ ret.res.creator_token # NoToken)

(***************************************************************************)
(* SpecRace: analyze requests of several clients in progress at one time.  *)
(* A request takes three steps: from its start to the lookup by            *)
(* contentHash (RaceBegin), the call of the engine (RaceEngine), and from  *)
(* the engine's return to the response (RaceFinish); the steps of the      *)
(* clients interleave in any order, and the clock may jump past the expiry *)
(* of the records at any point.  A run holds at most MaxRequests requests. *)
(***************************************************************************)
\* past the 30 days of a record and the 7 days of the analysis cache
RaceClockSteps == {40 * SecondsPerDay}

\* two requests with one fingerprint and different payloads, and another
RaceRequests == {b \in AnalyzeRequests : b.text \in ReqTexts}

\* the model finds a legal document, or none
RaceScripts ==
    { << [kind |-> "ok", legal |-> TRUE, tokens |-> MaxTokenCount] >>,
      << [kind |-> "ok", legal |-> FALSE, tokens |-> MaxTokenCount] >> }

InitRace ==
    /\ StoreIdle
    /\ ret = NoRet
    /\ eng = EngIdle
    /\ norm = NormIdle

\* the rows of the fingerprint
RowsOf(db, contentHash) == {a \in db : a.contentHash = contentHash}

RaceBegun(c, begun, req) ==
    /\ redis' = begun.redis
    /\ IF begun.res.code = Pending
       THEN /\ inflight' = [inflight EXCEPT ![c] =
                               [pc |-> "engine", req |-> req,
                                existing |-> begun.existing]]
            /\ ret' = [op |-> "begin", client |-> c]
       ELSE /\ inflight' = inflight
            /\ ret' = [op |-> "analyze", client |-> c, attempted |-> FALSE,
                       raced |-> FALSE, req |-> req, res |-> begun.res]

RaceBegin ==
    /\ served < MaxRequests
    /\ \E c \in Clients, ip \in IPs, body \in RaceRequests, script \in RaceScripts :
          /\ inflight[c].pc = "idle"
          /\ RaceBegun(c,
                 AnalyzeBegin(redis, now, analyses,
                              AnalyzeRequest(ip, body, TextFacts[body.text],
                                             FreshToken(served), script,
                                             NoRedisFailure, FALSE)),
                 AnalyzeRequest(ip, body, TextFacts[body.text],
                                FreshToken(served), script,
                                NoRedisFailure, FALSE))
    /\ served' = served + 1
    /\ UNCHANGED <<window, now, analyses, shares, eng, norm>>

RaceEngineRan(c, run) ==
    /\ redis' = run.r
    /\ inflight' = [inflight EXCEPT ![c] =
                       [@ EXCEPT !.pc = "finish"] @@ [run |-> [run EXCEPT !.r = NoKeys]]]
    /\ ret' = [op |-> "engine", client |-> c]

RaceEngine ==
    /\ \E c \in Clients :
          /\ inflight[c].pc = "engine"
          /\ RaceEngineRan(c, analyze(redis, now, inflight[c].req.text,
                                      inflight[c].req.script, FALSE, FALSE))
    /\ UNCHANGED <<window, now, analyses, shares, eng, norm, served>>

\* attempted: the request went on to persist its result; raced: the rows of
\* its fingerprint are no longer those its lookup found
RaceFinished(c, out) ==
    /\ redis' = out.redis
    /\ analyses' = out.analyses
    /\ inflight' = [inflight EXCEPT ![c] = NoRequest]
    /\ ret' = [op |-> "analyze", client |-> c,
               attempted |-> /\ ~inflight[c].run.threw
                             /\ inflight[c].run.result.is_legal_document,
               raced |-> RowsOf(analyses, inflight[c].req.contentHash)
                             # inflight[c].existing,
               req |-> inflight[c].req, res |-> out.res]

RaceFinish ==
    /\ \E c \in Clients :
          /\ inflight[c].pc = "finish"
          /\ RaceFinished(c,
                 AnalyzeEngineDone([inflight[c].run EXCEPT !.r = redis], now,
                                   analyses, inflight[c].req,
                                   inflight[c].existing))
    /\ UNCHANGED <<window, now, shares, eng, norm, served>>

RaceTick ==
    /\ \E d \in RaceClockSteps :
          /\ now + d \in Timeline(RaceClockSteps, 1)
          /\ now' = now + d
          /\ redis' = Purge(redis, now + d)
    /\ ret' = [op |-> "tick"]
    /\ UNCHANGED <<window, analyses, shares, eng, norm, served, inflight>>

NextRace ==
    \/ RaceBegin
    \/ RaceEngine
    \/ RaceFinish
    \/ RaceTick

SpecRace == InitRace /\ [][NextRace]_vars

(***************************************************************************)
(* C19  In every reachable state, under any interleaving of concurrent     *)
(*      analyze requests, the store holds at most one record per           *)
(*      contentHash.                                                       *)
(***************************************************************************)
C19_OneRecordPerContentHash ==
    \A a \in analyses, b \in analyses : a.contentHash = b.contentHash => a = b

\* Two requests with one fingerprint both missed the store; the second to
\* persist had its insert refused, and the store holds the one record.
C19_SecondInsertRefused ==
    /\ ret.op = "analyze"
    /\ ret.attempted
    /\ ret.raced
    /\ ret.res.code = "ANALYSIS_ERROR"
    /\ Cardinality(RowsOf(analyses, ret.req.contentHash)) = 1

(***************************************************************************)
(* C20  When two concurrent analyze requests for one fingerprint both miss *)
(*      the store and both complete the engine call, both persist attempts *)
(*      are accepted, last write wins: the later writer does not fail, and *)
(*      the store ends with one record that holds its payload.             *)
(* Both requests found no row and both call prisma.analysis.create; the    *)
(* unique index on content_hash refuses the second insert, the create      *)
(* throws and the request is answered 500: first write wins.               *)
(***************************************************************************)
C20_LastWriteWins ==
    (ret.op = "analyze" /\ ret.attempted /\ ret.raced) =>
        /\ ret.res.status = 200
        /\ \E a \in analyses :
              /\ RowsOf(analyses, ret.req.contentHash) = {a}
              /\ a.id = ret.res.id
              /\ a.isPublic = ret.req.add_to_library
              /\ a.companyName = IF ret.req.company_name # ""
                                 THEN ret.req.company_name ELSE DetectedCompany


(***************************************************************************)
(* SpecWindow: clients call checkRateLimit concurrently while the clock    *)
(* runs.  A call is three steps: the client sends the EVAL, Redis runs the *)
(* script as one command, the client receives the reply.  The history      *)
(* variable window counts, per identity, the calls Redis has run since the *)
(* call that opened the current 60s window.                                *)
(***************************************************************************)
MaxWindowTicks == 4

\* the clock advances by half a rate-limit window
WindowStep == TtlRateLimit \div 2

NoWindow == [start |-> 0, calls |-> 0]

WindowOf(w, ip) == IF ip \in DOMAIN w THEN w[ip] ELSE NoWindow

\* history: the call of ip that Redis runs at time t, counted in the window
\* it falls in
WindowCounted(w, t, ip) ==
    IF WindowOf(w, ip).calls > 0 /\ t < WindowOf(w, ip).start + TtlRateLimit
    THEN Put(w, ip, [WindowOf(w, ip) EXCEPT !.calls = @ + 1])
    ELSE Put(w, ip, [start |-> t, calls |-> 1])

InitWindow ==
    /\ StoreIdle
    /\ ret = NoRet
    /\ eng = EngIdle
    /\ norm = NormIdle

\* redis.eval(script, 1, key, windowSeconds) is sent
WindowSend(c) ==
    /\ inflight[c] = NoRequest
    /\ \E ip \in IPs, limit \in 1..MaxLimit :
          inflight' = [inflight EXCEPT ![c] = [pc |-> "sent", ip |-> ip, limit |-> limit]]
    /\ UNCHANGED <<window, now, redis, analyses, shares, ret, eng, norm, served>>

\* what checkRateLimit of client c will return, once Redis has answered res
WindowAnswered(c, res, down, counted) ==
    /\ redis' = res.r
    /\ window' = IF down THEN window ELSE counted
    /\ inflight' = [inflight EXCEPT ![c] =
                       [pc |-> "answered", ip |-> inflight[c].ip,
                        limit |-> inflight[c].limit, down |-> down,
                        exceeded |-> res.exceeded, threw |-> res.threw,
                        nth |-> IF down THEN 0 ELSE counted[inflight[c].ip].calls]]

\* Redis runs the script of client c, or the eval throws
WindowEval(c) ==
    /\ inflight[c].pc = "sent"
    /\ CounterBelow(redis, <<CACHE_KEYS.RATE_LIMIT, inflight[c].ip>>, MaxCount)
    /\ \E down \in BOOLEAN :
          WindowAnswered(c, checkRateLimit(redis, now, inflight[c].ip, inflight[c].limit, down),
                         down, WindowCounted(window, now, inflight[c].ip))
    /\ UNCHANGED <<now, analyses, shares, ret, eng, norm, served>>

\* checkRateLimit returns to its caller
WindowReturn(c) ==
    /\ inflight[c].pc = "answered"
    /\ ret' = [op |-> "checkRateLimit", ip |-> inflight[c].ip,
               limit |-> inflight[c].limit, down |-> inflight[c].down,
               exceeded |-> inflight[c].exceeded, threw |-> inflight[c].threw,
               nth |-> inflight[c].nth]
    /\ inflight' = [inflight EXCEPT ![c] = NoRequest]
    /\ UNCHANGED <<window, now, redis, analyses, shares, eng, norm, served>>

WindowTick ==
    /\ now < MaxWindowTicks * WindowStep
    /\ now' = now + WindowStep
    /\ redis' = Purge(redis, now + WindowStep)
    /\ UNCHANGED <<window, inflight, analyses, shares, ret, eng, norm, served>>

NextWindow ==
    \/ \E c \in Clients : WindowSend(c)
    \/ \E c \in Clients : WindowEval(c)
    \/ \E c \in Clients : WindowReturn(c)
    \/ WindowTick

SpecWindow == InitWindow /\ [][NextWindow]_vars

(***************************************************************************)
(* C21  Under any interleaving of concurrent rate-limit checks for the     *)
(*      same identity, whenever the rate-limit counter key exists it has   *)
(*      an expiry set, at most 60s ahead: the increment and the            *)
(*      conditional set-expiry are one step of Redis.                      *)
(***************************************************************************)
C21_CounterAlwaysHasExpiry ==
    \A k \in DOMAIN redis :
        k[1] = CACHE_KEYS.RATE_LIMIT
            => /\ redis[k].exp # NoExpiry
               /\ redis[k].exp > now
               /\ redis[k].exp <= now + TtlRateLimit

\* Two checks of one identity are in flight together: Redis has run the
\* script of one, which created the counter, and not yet that of the other.
C21_SecondCheckInFlight ==
    \E c, d \in Clients :
        /\ inflight[c].pc = "answered"
        /\ inflight[d].pc = "sent"
        /\ inflight[c].ip = inflight[d].ip
        /\ ~inflight[c].down
        /\ RedisGet(redis, <<CACHE_KEYS.RATE_LIMIT, inflight[c].ip>>) = 1

(***************************************************************************)
(* C22  Within one rate-limit window (from the call that creates the       *)
(*      counter until its 60s expiry), among the checkRateLimit calls of   *)
(*      one identity that Redis runs, in the order it runs them, exactly   *)
(*      the first `limit` report not-exceeded and every later one reports  *)
(*      exceeded; later calls do not extend the window, so the call that   *)
(*      comes 60s or more after the one that opened the window is the      *)
(*      first of a new window and is admitted.                             *)
(***************************************************************************)
C22_FirstLimitCallsAdmitted ==
    /\ (ret.op = "checkRateLimit" /\ ~ret.down)
          => /\ ret.nth >= 1
             /\ ret.exceeded <=> ret.nth > ret.limit
    /\ \A ip \in DOMAIN window :
          /\ now < window[ip].start + TtlRateLimit
                => RedisGet(redis, <<CACHE_KEYS.RATE_LIMIT, ip>>) = window[ip].calls
          /\ now >= window[ip].start + TtlRateLimit
                => ~RedisExists(redis, <<CACHE_KEYS.RATE_LIMIT, ip>>)

\* An identity that used up a window is refused again in a later window.
C22_RefusedInLaterWindow ==
    /\ ret.op = "checkRateLimit"
    /\ ~ret.down
    /\ ret.exceeded
    /\ ret.ip \in DOMAIN window
    /\ window[ret.ip].start >= TtlRateLimit
    /\ window[ret.ip].calls = ret.nth

(***************************************************************************)
(* SpecCache: the cache functions of redis.ts called directly, by clients  *)
(* that share one Redis whose commands may throw.  A wildcard              *)
(* invalidateCache is a scan stream: each batch of matching keys pauses    *)
(* the stream, is deleted, and resumes it; the end of the stream resolves  *)
(* the call and an error of the stream rejects it.                         *)
(***************************************************************************)
MaxCacheIds == 2

MaxCacheOps == 3

\* scanStream({ count }): the keys of one batch (100 in the code)
ScanCount == 1

CacheIds == 1..MaxCacheIds

CacheHashes == {TextFacts[x].hash : x \in ReqTexts}

LibraryPrefix == "tos:library:"

\* the prefixes invalidateCache is called with, followed by '*'
ScanPrefixes == {CACHE_KEYS.SHARE, LibraryPrefix}

\* what a cache function hands back: <<v>> for the value v, Miss for null
\* and for the functions that return nothing
Miss == <<>>

\* the body of getCachedAnalysis and of getCachedShare: the value, or null
\* for a miss and for a GET that throws
getCached(r, key, down) ==
    IF ~down /\ RedisExists(r, key)
    THEN [r |-> r, value |-> <<RedisGet(r, key)>>, threw |-> FALSE]
    ELSE [r |-> r, value |-> Miss, threw |-> FALSE]

getCachedAnalysis(r, contentHash, down) ==
    getCached(r, <<CACHE_KEYS.ANALYSIS, contentHash>>, down)

getCachedShare(r, shareId, down) == getCached(r, <<CACHE_KEYS.SHARE, shareId>>, down)

\* cacheAnalysis(contentHash, data): a SETEX that throws is swallowed
cacheAnalysis(r, t, contentHash, data, down) ==
    [r |-> IF down THEN r
           ELSE RedisSetex(r, t, <<CACHE_KEYS.ANALYSIS, contentHash>>, CACHE_TTL.ANALYSIS, data),
     value |-> Miss, threw |-> FALSE]

\* cacheShare(shareId, data)
cacheShare(r, t, shareId, data, down) ==
    [r |-> IF down THEN r
           ELSE RedisSetex(r, t, <<CACHE_KEYS.SHARE, shareId>>, CACHE_TTL.SHARE, data),
     value |-> Miss, threw |-> FALSE]

\* invalidateCache(key) without a wildcard: one DEL inside the try
invalidateKey(r, key, down) ==
    [r |-> IF down THEN r ELSE RedisDel(r, key), value |-> Miss, threw |-> FALSE]

\* the keys a scan with MATCH prefix* has to visit
ScanMatches(r, prefix) == {k \in DOMAIN r : k[1] = prefix}

\* redis.del(...keys)
RedisDelAll(r, keys) == [k \in DOMAIN r \ keys |-> r[k]]

\* the data handler after stream.pause(): await redis.del(...keys), then
\* deletedCount += keys.length and stream.resume().  A DEL that throws
\* rejects the promise of the handler, which nobody awaits: the stream is
\* never resumed and neither 'end' nor 'error' is emitted.
ScanDelete(req, r, down) ==
    IF down
    THEN [r |-> r, req |-> [req EXCEPT !.pc = "stalled"]]
    ELSE [r |-> RedisDelAll(r, req.batch),
          req |-> [req EXCEPT !.pc = "scanning", !.left = @ \ req.batch, !.batch = {},
                              !.deletedCount = @ + Cardinality(req.batch)]]

CacheReturned(op, down, out) ==
    /\ redis' = out.r
    /\ ret' = [op |-> op, down |-> down, value |-> out.value, threw |-> out.threw]
    /\ served' = served + 1

InitCache ==
    /\ StoreIdle
    /\ ret = NoRet
    /\ eng = EngIdle
    /\ norm = NormIdle

CacheGetAnalysis ==
    /\ served < MaxCacheOps
    /\ \E contentHash \in CacheHashes, down \in BOOLEAN :
          CacheReturned("getCachedAnalysis", down, getCachedAnalysis(redis, contentHash, down))
    /\ UNCHANGED <<window, inflight, now, analyses, shares, eng, norm>>

CacheSetAnalysis ==
    /\ served < MaxCacheOps
    /\ \E contentHash \in CacheHashes, down \in BOOLEAN :
          CacheReturned("cacheAnalysis", down,
                        cacheAnalysis(redis, now, contentHash, AnalysisResult(TRUE), down))
    /\ UNCHANGED <<window, inflight, now, analyses, shares, eng, norm>>

CacheGetShare ==
    /\ served < MaxCacheOps
    /\ \E shareId \in CacheIds, down \in BOOLEAN :
          CacheReturned("getCachedShare", down, getCachedShare(redis, shareId, down))
    /\ UNCHANGED <<window, inflight, now, analyses, shares, eng, norm>>

CacheSetShare ==
    /\ served < MaxCacheOps
    /\ \E shareId \in CacheIds, down \in BOOLEAN :
          CacheReturned("cacheShare", down,
                        cacheShare(redis, now, shareId, [id |-> shareId], down))
    /\ UNCHANGED <<window, inflight, now, analyses, shares, eng, norm>>

\* the library listing route has cached a page of its listing
CacheLibraryPage ==
    /\ served < MaxCacheOps
    /\ \E page \in CacheIds :
          /\ redis' = RedisSetex(redis, now, <<LibraryPrefix, page>>, CACHE_TTL.SHARE, [page |-> page])
          /\ ret' = [op |-> "library", down |-> FALSE, value |-> Miss, threw |-> FALSE]
    /\ served' = served + 1
    /\ UNCHANGED <<window, inflight, now, analyses, shares, eng, norm>>

CacheInvalidateKey ==
    /\ served < MaxCacheOps
    /\ \E shareId \in CacheIds, down \in BOOLEAN :
          CacheReturned("invalidateCache", down,
                        invalidateKey(redis, <<CACHE_KEYS.SHARE, shareId>>, down))
    /\ UNCHANGED <<window, inflight, now, analyses, shares, eng, norm>>

\* invalidateCache(prefix + '*'): the scan stream is created
CacheInvalidateStart(c) ==
    /\ served < MaxCacheOps
    /\ inflight[c] = NoRequest
    /\ \E prefix \in ScanPrefixes :
          inflight' = [inflight EXCEPT ![c] =
                          [pc |-> "scanning", prefix |-> prefix,
                           left |-> ScanMatches(redis, prefix), batch |-> {},
                           deletedCount |-> 0, down |-> FALSE]]
    /\ served' = served + 1
    /\ UNCHANGED <<window, now, redis, analyses, shares, ret, eng, norm>>

\* the stream reads on: a SCAN that throws emits 'error', which rejects the
\* call into the catch; a scan that is through emits 'end', which resolves
\* it; otherwise 'data' hands a batch to the handler, which pauses the stream
CacheScanBatch(c) ==
    /\ inflight[c].pc = "scanning"
    /\ \E down \in BOOLEAN, batch \in SUBSET inflight[c].left :
          /\ Cardinality(batch) = Min(ScanCount, Cardinality(inflight[c].left))
          /\ inflight' = [inflight EXCEPT ![c] =
                 IF down THEN [@ EXCEPT !.pc = "returned", !.down = TRUE]
                 ELSE IF batch = {} THEN [@ EXCEPT !.pc = "returned"]
                 ELSE [@ EXCEPT !.pc = "deleting", !.batch = batch]]
    /\ UNCHANGED <<window, now, redis, analyses, shares, ret, eng, norm, served>>

CacheDeleteBatch(c) ==
    /\ inflight[c].pc = "deleting"
    /\ \E down \in BOOLEAN :
          /\ redis' = ScanDelete(inflight[c], redis, down).r
          /\ inflight' = [inflight EXCEPT ![c] = [ScanDelete(inflight[c], redis, down).req
                                                     EXCEPT !.down = down]]
    /\ UNCHANGED <<window, now, analyses, shares, ret, eng, norm, served>>

\* invalidateCache returns to its caller
CacheInvalidateReturn(c) ==
    /\ inflight[c].pc = "returned"
    /\ ret' = [op |-> "invalidateCache", down |-> inflight[c].down, value |-> Miss,
               threw |-> FALSE]
    /\ inflight' = [inflight EXCEPT ![c] = NoRequest]
    /\ UNCHANGED <<window, now, redis, analyses, shares, eng, norm, served>>

NextCache ==
    \/ CacheGetAnalysis
    \/ CacheSetAnalysis
    \/ CacheGetShare
    \/ CacheSetShare
    \/ CacheLibraryPage
    \/ CacheInvalidateKey
    \/ \E c \in Clients : CacheInvalidateStart(c)
    \/ \E c \in Clients : CacheScanBatch(c)
    \/ \E c \in Clients : CacheDeleteBatch(c)
    \/ \E c \in Clients : CacheInvalidateReturn(c)

SpecCache == InitCache /\ [][NextCache]_vars

\* The stream reads on while it flows, a DEL in flight settles, and a
\* settled call returns: each of these steps is taken once it stays enabled.
SpecCacheLive ==
    /\ SpecCache
    /\ \A c \in Clients :
          /\ WF_vars(CacheScanBatch(c))
          /\ WF_vars(CacheDeleteBatch(c))
          /\ WF_vars(CacheInvalidateReturn(c))

(***************************************************************************)
(* C23  Cache reads and writes are best-effort: if the cache backend       *)
(*      fails, getCachedAnalysis and getCachedShare return a miss (null)   *)
(*      and cacheAnalysis, cacheShare and invalidateCache return normally; *)
(*      none of them surfaces an error to the caller, and no call is left  *)
(*      where it can no longer return.                                     *)
(* A DEL that throws inside the scan of a wildcard invalidateCache leaves  *)
(* the call stalled: it neither returns nor throws.                        *)
(***************************************************************************)
C23_CacheCallsBestEffort ==
    /\ ret.op \in {"getCachedAnalysis", "getCachedShare", "cacheAnalysis", "cacheShare",
                    "invalidateCache"}
          => /\ ~ret.threw
             /\ (ret.down /\ ret.op \in {"getCachedAnalysis", "getCachedShare"})
                   => ret.value = Miss
    /\ \A c \in Clients : inflight[c].pc # "stalled"

(***************************************************************************)
(* C24  No operation blocks indefinitely: a wildcard invalidateCache call  *)
(*      always eventually returns to its caller, also when a key deletion  *)
(*      fails in the middle of the scan.                                   *)
(* The stream paused for a DEL that throws is never resumed, so the        *)
(* promise the call awaits is never settled.                               *)
(***************************************************************************)
C24_InvalidateEventuallyReturns ==
    \A c \in Clients : (inflight[c].pc # "idle") ~> (inflight[c].pc = "idle")

(***************************************************************************)
(* C25  The ShareView of an analysis is created on the first successful    *)
(*      fetch-by-id and its viewCount is incremented by exactly one on     *)
(*      each subsequent successful fetch-by-id; each response carries the  *)
(*      incremented count.                                                 *)
(* A fetch answered from the share cache returns the payload cached by an  *)
(* earlier fetch, with that fetch's count, and increments nothing.         *)
(***************************************************************************)
C25_ViewCountedOnEveryFetch ==
    (ret.op = "fetch" /\ ret.res.status = 200)
        => /\ ret.res.id \in DOMAIN shares
           /\ shares[ret.res.id] = ret.viewsBefore + 1
           /\ ret.res.data.view_count = ret.viewsBefore + 1

(***************************************************************************)
(* SpecView: fetch-by-id requests of several clients interleaved with      *)
(* analyze and publish requests.  A fetch that misses the share cache is   *)
(* two steps: up to the store updates that follow the read of the record,  *)
(* and from cacheShare to the response.  Each record is published at most  *)
(* once; ret.published is the history of the ids whose publish has         *)
(* completed.                                                              *)
(***************************************************************************)
MaxViewRequests == 4

\* past the last Redis command of a fetch or publish handler
NoViewFailure == 3

InitView ==
    /\ StoreIdle
    /\ ret = [op |-> "none", published |-> {}]
    /\ eng = EngIdle
    /\ norm = NormIdle

ViewAnalyzed(out) ==
    /\ redis' = out.redis
    /\ analyses' = out.analyses
    /\ ret' = [op |-> "analyze", res |-> out.res, published |-> ret.published]

ViewAnalyze ==
    /\ served < MaxViewRequests
    /\ \E ip \in IPs, body \in RaceRequests, script \in RaceScripts :
          ViewAnalyzed(AnalyzePOST(redis, now, analyses,
                                   AnalyzeRequest(ip, body, TextFacts[body.text],
                                                  FreshToken(served), script,
                                                  NoRedisFailure, FALSE)))
    /\ served' = served + 1
    /\ UNCHANGED <<window, inflight, now, shares, eng, norm>>

\* GET up to cacheShare: a request answered from the share cache or refused
\* is over at once, any other has read the record and counted the view
ViewFetched(c, id, out) ==
    /\ analyses' = out.analyses
    /\ shares' = out.shares
    /\ IF out.res.status = 200 /\ ~out.res.cached
       THEN /\ inflight' = [inflight EXCEPT ![c] =
                               [pc |-> "caching", id |-> id, res |-> out.res,
                                publishedBefore |-> ret.published]]
            /\ ret' = ret
       ELSE /\ inflight' = inflight
            /\ ret' = [op |-> "fetch", res |-> out.res,
                       publishedBefore |-> ret.published,
                       published |-> ret.published]

ViewFetch(c) ==
    /\ served < MaxViewRequests
    /\ inflight[c] = NoRequest
    /\ \E id \in RequestIds :
          ViewFetched(c, id, FetchGET(redis, now, analyses, shares, id, NoViewFailure))
    /\ served' = served + 1
    /\ UNCHANGED <<window, now, redis, eng, norm>>

\* await cacheShare(id, responseData), then the response
ViewCache(c) ==
    /\ inflight[c].pc = "caching"
    /\ redis' = cacheShare(redis, now, inflight[c].id, inflight[c].res.data, FALSE).r
    /\ ret' = [op |-> "fetch", res |-> inflight[c].res,
               publishedBefore |-> inflight[c].publishedBefore,
               published |-> ret.published]
    /\ inflight' = [inflight EXCEPT ![c] = NoRequest]
    /\ UNCHANGED <<window, now, analyses, shares, eng, norm, served>>

ViewPublished(id, out) ==
    /\ redis' = out.redis
    /\ analyses' = out.analyses
    /\ ret' = [op |-> "publish", res |-> out.res,
               published |-> IF out.res.status = 200
                             THEN ret.published \cup {id} ELSE ret.published]

\* POST /api/analysis/[id]/publish from its first line to its response
ViewPublish ==
    /\ served < MaxViewRequests
    /\ \E ip \in IPs, id \in RequestIds \ ret.published, req \in PublishRequests,
          creator_token \in 0..served :
          ViewPublished(id, PublishPOST(redis, now, analyses, ip, id, req.company_name,
                                        req.add_to_library, creator_token, NoViewFailure))
    /\ served' = served + 1
    /\ UNCHANGED <<window, inflight, now, shares, eng, norm>>

NextView ==
    \/ ViewAnalyze
    \/ \E c \in Clients : ViewFetch(c)
    \/ \E c \in Clients : ViewCache(c)
    \/ ViewPublish

SpecView == InitView /\ [][NextView]_vars

(***************************************************************************)
(* C26  A successful publish sets the record's visibility and invalidates  *)
(*      the cache entry for that id: once the publish has completed, every *)
(*      later fetch-by-id (one that begins after it) reports is_public and *)
(*      company_name equal to the stored record's values, under any        *)
(*      interleaving with concurrent fetch-by-id requests.                 *)
(* A fetch that read the record before the publish caches its payload      *)
(* after the publish has invalidated the entry; later fetches are answered *)
(* from that entry with the values from before the publish.                *)
(***************************************************************************)
C26_FetchAfterPublishIsCurrent ==
    (/\ ret.op = "fetch"
     /\ ret.res.status = 200
     /\ ret.res.id \in ret.publishedBefore)
        => \E a \in analyses :
              /\ a.id = ret.res.id
              /\ ret.res.data.is_public = a.isPublic
              /\ ret.res.data.company_name = a.companyName

(***************************************************************************)
(* C27  Every invocation of the engine terminates in DONE or FAILED after  *)
(*      a bounded number of model calls: at no time has a single-pass      *)
(*      document made more than 3 model calls, nor a document split into   *)
(*      k chunks more than 3 * k + 1, and every run eventually reaches     *)
(*      DONE or FAILED.                                                    *)
(***************************************************************************)
C27_TerminatesWithinCallBound ==
    /\ [](/\ eng.mode = "SINGLE_PASS" => Len(CallsOf(eng.log)) <= 3
          /\ eng.mode = "CHUNKED" => Len(CallsOf(eng.log)) <= 3 * eng.chunks + 1)
    /\ <>(eng.pc \in {"DONE", "FAILED"})

\* A document of two chunks is DONE after each chunk took three attempts.
C27_EveryChunkTookThreeAttempts ==
    /\ eng.mode = "CHUNKED"
    /\ eng.chunks = 2
    /\ eng.pc = "DONE"
    /\ Len(CallsOf(eng.log)) = 3 * eng.chunks + 1


\* the positions of the inter-chunk pauses in a log
PausesOf(log) == {k \in 1..Len(log) : log[k].ev = "sleep" /\ log[k].why = "pause"}

\* the successful chunk calls in a log
ChunksDoneOf(log) == {k \in 1..Len(log) : log[k] = [ev |-> "call", phase |-> "CHUNKED", resp |-> "ok"]}

(***************************************************************************)
(* C28  The chunked path is strictly sequential per document.  The run is  *)
(*      one totally ordered log of calls and sleeps; the chunk in hand is  *)
(*      the number of pauses taken, so chunks are handled in their         *)
(*      original order; a chunk call never follows another call directly:  *)
(*      it is the first entry, or follows a backoff after a failed call    *)
(*      of the same chunk, or follows the 1s pause, which itself follows   *)
(*      the successful call of the chunk before; no pause follows the      *)
(*      last chunk, whose success is followed directly by the synthesis.   *)
(***************************************************************************)
C28_ChunksStrictlySequential ==
    eng.mode = "CHUNKED" =>
        /\ eng.i = Cardinality(PausesOf(eng.log))
        /\ eng.i <= eng.chunks - 1
        /\ Cardinality(ChunksDoneOf(eng.log)) \in {eng.i, eng.i + 1}
        /\ \A k \in PausesOf(eng.log) :
              /\ eng.log[k].ms = 1000
              /\ k - 1 \in ChunksDoneOf(eng.log)
              /\ k < Len(eng.log) => (eng.log[k + 1].ev = "call" /\ eng.log[k + 1].phase = "CHUNKED")
        /\ \A k \in ChunksDoneOf(eng.log) :
              IF Cardinality({j \in ChunksDoneOf(eng.log) : j <= k}) < eng.chunks
              THEN k < Len(eng.log) => k + 1 \in PausesOf(eng.log)
              ELSE /\ k + 1 \notin PausesOf(eng.log)
                   /\ k < Len(eng.log) => eng.log[k + 1].phase = "SYNTHESIS"
        /\ \A k \in 2..Len(eng.log) :
              (eng.log[k].ev = "call" /\ eng.log[k].phase = "CHUNKED")
                  => /\ eng.log[k - 1].ev = "sleep"
                     /\ eng.log[k - 1].why = "backoff"
                            => (/\ eng.log[k - 2].ev = "call"
                                /\ eng.log[k - 2].phase = "CHUNKED"
                                /\ eng.log[k - 2].resp \in TransientKinds)
        /\ \A k \in 1..Len(eng.log) :
              (eng.log[k].ev = "call" /\ eng.log[k].phase = "SYNTHESIS")
                  => /\ k - 1 \in ChunksDoneOf(eng.log)
                     /\ Cardinality(PausesOf(eng.log)) = eng.chunks - 1

\* The last chunk has succeeded on a retry and the synthesis is next, one
\* pause behind.
C28_LastChunkDoneNoPause ==
    /\ eng.mode = "CHUNKED"
    /\ eng.pc = "SYNTH"
    /\ eng.i = eng.chunks - 1
    /\ Len(eng.log) \in ChunksDoneOf(eng.log)
    /\ Cardinality(PausesOf(eng.log)) = 1
    /\ Len(SleepsOf(eng.log)) > 1


\* the positions of the synthesis calls in a log
SynthesesOf(log) == {k \in 1..Len(log) : log[k].ev = "call" /\ log[k].phase = "SYNTHESIS"}

(***************************************************************************)
(* C29  In the chunked path the synthesis model call is issued exactly     *)
(*      once and only after every chunk has succeeded: a log holds at most *)
(*      one synthesis call, it is the last entry and all the chunks have   *)
(*      succeeded before it, and a run that is DONE holds one.  If a chunk *)
(*      fails terminally the failing call is the last entry of the log,    *)
(*      so no later chunk is analysed and no synthesis call is made, and   *)
(*      analyze throws with the cache left as it was.                      *)
(***************************************************************************)
C29_SynthesisOnceAfterAllChunks ==
    eng.mode = "CHUNKED" =>
        /\ Cardinality(SynthesesOf(eng.log)) <= 1
        /\ eng.pc = "DONE" => Cardinality(SynthesesOf(eng.log)) = 1
        /\ \A k \in SynthesesOf(eng.log) :
              /\ k = Len(eng.log)
              /\ Cardinality(ChunksDoneOf(eng.log)) = eng.chunks
              /\ \A j \in ChunksDoneOf(eng.log) : j < k
        /\ (eng.pc = "FAILED" /\ SynthesesOf(eng.log) = {})
              => /\ eng.log[Len(eng.log)].ev = "call"
                 /\ eng.log[Len(eng.log)].phase = "CHUNKED"
                 /\ eng.log[Len(eng.log)].resp # "ok"
                 /\ Cardinality(ChunksDoneOf(eng.log)) = eng.i
                 /\ eng.i < eng.chunks
        /\ Cardinality(ChunksDoneOf(eng.log)) < eng.chunks => SynthesesOf(eng.log) = {}
        /\ (eng.pc = "FAILED" /\ ret.op = "analyze") => (ret.threw /\ redis = NoKeys)

\* The first chunk succeeded, the second failed for good, and analyze has
\* thrown.
C29_SecondChunkFailed ==
    /\ eng.mode = "CHUNKED"
    /\ eng.pc = "FAILED"
    /\ eng.i = 1
    /\ SynthesesOf(eng.log) = {}
    /\ ret.op = "analyze"
    /\ ret.threw


(***************************************************************************)
(* C30  Every network or empty-response failure of an engine model call    *)
(*      (single-pass call, chunk call or synthesis call) is treated as     *)
(*      transient: when the engine has FAILED on such a failure, the       *)
(*      failing call was the third attempt of its phase, the two before    *)
(*      it each followed by a backoff sleep.                               *)
(* synthesizeChunks makes its one model call outside any retry loop, so a  *)
(* network or empty-response failure of the synthesis call fails the       *)
(* engine on the first attempt.                                            *)
(***************************************************************************)
C30_TransientFailureRetriedToCap ==
    (/\ eng.pc = "FAILED"
     /\ eng.log[Len(eng.log)].ev = "call"
     /\ eng.log[Len(eng.log)].resp \in {"network", "empty"})
        => /\ Len(eng.log) >= 5
           /\ \A d \in {2, 4} :
                 /\ eng.log[Len(eng.log) - d].ev = "call"
                 /\ eng.log[Len(eng.log) - d].phase = eng.log[Len(eng.log)].phase
           /\ \A d \in {1, 3} :
                 /\ eng.log[Len(eng.log) - d].ev = "sleep"
                 /\ eng.log[Len(eng.log) - d].why = "backoff"


(***************************************************************************)
(* C31  When a run of the engine has succeeded, the tokensUsed it reports  *)
(*      for the Budget Guard is the sum of the prompt and completion       *)
(*      token counts of every model call made during the run.              *)
(* The engine reads usageMetadata only of an answer it accepts: an answer  *)
(* that was rejected (empty text, no JSON, unparsable JSON) and retried    *)
(* has used tokens that the total leaves out.                              *)
(***************************************************************************)
C31_TokensUsedSumsEveryCall ==
    (ret # NoRet /\ ret.op = "analyze" /\ eng.pc = "DONE")
        => ret.tokensUsed = eng.consumed


(***************************************************************************)
(* SpecChunk: chunkText(text, maxWords) on every short text, one turn of   *)
(* its loop per step.                                                      *)
(***************************************************************************)
MaxChunkLen == 5

MaxChunkWords == 2

ChunkChars == {"a", "b", Space}

\* text.split(/\s+/) from character i on: cur is the token being read, inSep
\* says that the character before i was whitespace
RECURSIVE SplitFrom(_, _, _, _, _)
SplitFrom(s, i, cur, inSep, acc) ==
    IF i > Len(s) THEN Append(acc, cur)
    ELSE IF IsSpace(s[i])
    THEN IF inSep THEN SplitFrom(s, i + 1, cur, TRUE, acc)
         ELSE SplitFrom(s, i + 1, <<>>, TRUE, Append(acc, cur))
    ELSE SplitFrom(s, i + 1, Append(cur, s[i]), FALSE, acc)

\* text.split(/\s+/): whitespace at either end of the text leaves an empty token
SplitWhitespace(s) == SplitFrom(s, 1, <<>>, FALSE, <<>>)

\* words.slice(from, to) with 0-based from and exclusive to
Slice(words, from, to) == SubSeq(words, from + 1, Min(to, Len(words)))

\* words.join(sep)
RECURSIVE Join(_, _)
Join(words, sep) ==
    IF words = <<>> THEN <<>>
    ELSE IF Len(words) = 1 THEN words[1]
    ELSE words[1] \o <<sep>> \o Join(Tail(words), sep)

\* the words of a string: its maximal runs of characters that are no whitespace
WordsOf(s) == SelectSeq(SplitWhitespace(s), LAMBDA w : w # <<>>)

\* the texts that reach chunkText hold at least one word
ChunkTexts ==
    {s \in UNION {[1..n -> ChunkChars] : n \in 1..MaxChunkLen} : WordsOf(s) # <<>>}

\* const words = text.split(/\s+/); const chunks = []
chunkTextEntered(text, maxWords) ==
    [pc |-> "CHUNKING", text |-> text, maxWords |-> maxWords,
     words |-> SplitWhitespace(text), i |-> 0, chunks |-> <<>>]

\* one turn of the loop: chunks.push(words.slice(i, i + maxWords).join(' '))
chunkTextTurn(c) ==
    [c EXCEPT !.chunks = Append(@, Join(Slice(c.words, c.i, c.i + c.maxWords), Space)),
              !.i = @ + c.maxWords]

InitChunk ==
    /\ StoreIdle
    /\ ret = NoRet
    /\ norm = NormIdle
    /\ \E text \in ChunkTexts, maxWords \in 1..MaxChunkWords :
          eng = chunkTextEntered(text, maxWords)

ChunkTextLoop ==
    /\ eng.pc = "CHUNKING"
    /\ eng.i < Len(eng.words)
    /\ eng' = chunkTextTurn(eng)
    /\ UNCHANGED <<window, inflight, served, now, redis, analyses, shares, ret, norm>>

ChunkTextReturn ==
    /\ eng.pc = "CHUNKING"
    /\ ~(eng.i < Len(eng.words))
    /\ eng' = [eng EXCEPT !.pc = "RETURNED"]
    /\ UNCHANGED <<window, inflight, served, now, redis, analyses, shares, ret, norm>>

NextChunk ==
    \/ ChunkTextLoop
    \/ ChunkTextReturn

SpecChunk == InitChunk /\ [][NextChunk]_vars

\* the words of the chunks, one after the other
RECURSIVE WordsOfAll(_)
WordsOfAll(chunks) ==
    IF chunks = <<>> THEN <<>>
    ELSE WordsOf(chunks[1]) \o WordsOfAll(Tail(chunks))

(***************************************************************************)
(* C32  When chunkText(text, maxWords) has returned: the words of the      *)
(*      chunks in order are the words of the text, every chunk holds at    *)
(*      most maxWords words, every chunk but the last holds exactly        *)
(*      maxWords words, and a text of n words has given ceil(n / maxWords) *)
(*      chunks.                                                            *)
(* The text is split without being trimmed: whitespace at its start or end *)
(* adds an empty token that takes a word's place in a chunk, so a chunk    *)
(* before the last can hold fewer than maxWords words and there can be     *)
(* one chunk more.                                                         *)
(***************************************************************************)
C32_ChunksAreFullBlocksOfWords ==
    eng.pc = "RETURNED" =>
        LET n == Len(WordsOf(eng.text))
        IN  /\ WordsOfAll(eng.chunks) = WordsOf(eng.text)
            /\ \A k \in 1..Len(eng.chunks) :
                  Len(WordsOf(eng.chunks[k])) <= eng.maxWords
            /\ \A k \in 1..(Len(eng.chunks) - 1) :
                  Len(WordsOf(eng.chunks[k])) = eng.maxWords
            /\ Len(eng.chunks) = (n + eng.maxWords - 1) \div eng.maxWords


(***************************************************************************)
(* SpecBudget: checkDailyBudget called any number of times, with any       *)
(* amount and with the backend failing at any of its commands, while the   *)
(* clock moves on within the day and into later days.                      *)
(***************************************************************************)
NextBudget ==
    \/ GuardCheckDailyBudget
    \/ Tick

SpecBudget == InitGuard /\ [][NextBudget]_vars

\* the keys of the daily token counters that Redis holds
DailyTokenKeys(r) == {k \in DOMAIN r : k[1] = CACHE_KEYS.DAILY_TOKENS}

(***************************************************************************)
(* C33  The daily token counter of a UTC day never decreases while that    *)
(*      day lasts: no step removes or lowers it, checkDailyBudget(0)       *)
(*      leaves it unchanged, checkDailyBudget(t) with t > 0 and a working  *)
(*      backend raises it by exactly t (a failing call raises it by t or   *)
(*      not at all), and the counter read on a new day is 0 with the       *)
(*      counter of the day before still held under its own key or gone by  *)
(*      its expiry.                                                        *)
(***************************************************************************)
C33_DailyCounterNeverDecreases ==
    [][ /\ \A k \in DailyTokenKeys(redis) :
              \/ k \in DOMAIN redis' /\ redis'[k].val >= redis[k].val
              \/ /\ k[2] < UtcDate(now')
                 /\ redis[k].exp # NoExpiry /\ redis[k].exp <= now'
        /\ UtcDate(now') # UtcDate(now) => DailyTokens(redis', now') = 0
        /\ ret'.op = "checkDailyBudget" =>
              LET before == DailyTokens(redis, now)
                  after == DailyTokens(redis', now)
              IN  /\ after \in {before, before + ret'.tokensToAdd}
                  /\ ret'.tokensToAdd = 0 => after = before
                  /\ ~ret'.down => after = before + ret'.tokensToAdd
      ]_vars

\* a registration has raised a counter that already held tokens
C33_RegisteredOnTopOfEarlier ==
    /\ ret.op = "checkDailyBudget"
    /\ ret.tokensToAdd > 0 /\ ~ret.down
    /\ ret.used > ret.tokensToAdd
    /\ DailyTokens(redis, now) = ret.used


(***************************************************************************)
(* C34  A budget check that the backend answers reports exceeded exactly   *)
(*      when the tokens used today are more than the limit (used = limit   *)
(*      is not exceeded); and an analyze request that has come to its      *)
(*      budget check with more tokens used than the limit has been         *)
(*      answered 503 BUDGET_EXCEEDED, with no model call made, nothing     *)
(*      registered and nothing stored.                                     *)
(***************************************************************************)
C34_ExceededOnlyAboveLimit ==
    /\ checkDailyBudget(redis, now, 0, 0).used = DailyTokens(redis, now)
    /\ checkDailyBudget(redis, now, 0, 0).limit = DailyTokenBudget
    /\ checkDailyBudget(redis, now, 0, 0).exceeded
          <=> DailyTokens(redis, now) > DailyTokenBudget
    /\ ret.op = "analyze" =>
          LET used == DailyTokens(redis, now) - ret.spent
              reached == ret.res.code \notin {"RATE_LIMIT_EXCEEDED", "VALIDATION_ERROR"}
          IN  /\ (reached /\ used > DailyTokenBudget) => ret.res.code = "BUDGET_EXCEEDED"
              /\ ret.res.code = "BUDGET_EXCEEDED" =>
                    /\ ret.res.status = 503
                    /\ ret.res.modelCalls = 0
                    /\ ret.spent = 0
                    /\ ~ret.wrote

\* a request met a counter above the limit and was refused
C34_RefusedAboveLimit ==
    /\ ret.op = "analyze"
    /\ ret.res.code = "BUDGET_EXCEEDED"
    /\ DailyTokens(redis, now) > DailyTokenBudget


(***************************************************************************)
(* C35  Every record in the Durable Store has expiresAt = createdAt + 30   *)
(*      days, after its creation and after any re-analysis that overwrote  *)
(*      it.                                                                *)
(* The update of an expired record sets a new expiresAt, 30 days from the  *)
(* re-analysis, and leaves createdAt as it was.                            *)
(***************************************************************************)
C35_ExpiresThirtyDaysAfterCreation ==
    \A a \in analyses : a.expiresAt = a.createdAt + ExpiryDays * SecondsPerDay


(***************************************************************************)
(* SpecSchema: AnalysisResultSchema.parse on what JSON.parse made of a     *)
(* model answer.  The payloads differ in the fields the schema constrains  *)
(* by an enumeration and in the fields a rejected document should leave    *)
(* empty.                                                                  *)
(***************************************************************************)
MaxCategories == 2

ConfidenceLevels == {"high", "medium", "low"}

DocumentTypes ==
    {"tos", "privacy_policy", "eula", "service_agreement", "cookie_policy", "unknown",
     "not_legal"}

RiskLevels == {"low", "medium", "high"}

CategoryNames ==
    {"Privacy", "Liability", "Rights", "Changes", "Termination", "Payment", "AI & Data Use"}

Severities == {"safe", "concerning", "critical"}

\* z.array(z.object({ severity: z.enum([...]), ... })) on the clauses of a category
ClausesValid(clauses) == \A i \in 1..Len(clauses) : clauses[i].severity \in Severities

\* z.array(z.object({ name: z.enum([...]), clauses: ... }))
CategoriesValid(categories) ==
    \A i \in 1..Len(categories) :
        /\ categories[i].name \in CategoryNames
        /\ ClausesValid(categories[i].clauses)

\* AnalysisResultSchema.parse(parsedData) returns: no field is tied to another
AnalysisResultSchemaAccepts(p) ==
    /\ p.detected_company.confidence \in ConfidenceLevels
    /\ p.document_validation.is_legal_document \in BOOLEAN
    /\ p.document_validation.document_type \in DocumentTypes
    /\ p.summary.overall_risk \in RiskLevels
    /\ p.summary.total_clauses \in Nat
    /\ CategoriesValid(p.categories)

\* the clause lists and the categories a model answer may hold
AnswerClauses ==
    {<<>>, << [severity |-> "critical"] >>, << [severity |-> "fatal"] >>}

AnswerCategories ==
    UNION {[1..n -> [name : {"Privacy", "Other"}, clauses : AnswerClauses]] :
             n \in 0..MaxCategories}

ModelAnswers ==
    [detected_company : [name : {"Initech"}, confidence : {"high", "certain"}],
     document_validation :
         [is_legal_document : BOOLEAN, document_type : {"tos", "not_legal", "memo"}],
     summary :
         [overall_risk : {"high", "none"}, total_clauses : {0, 1},
          key_takeaways : {<<>>, <<"k">>}],
     categories : AnswerCategories]

InitSchema ==
    /\ StoreIdle
    /\ ret = NoRet
    /\ norm = NormIdle
    /\ \E parsedData \in ModelAnswers : eng = [pc |-> "PARSED", parsedData |-> parsedData]

\* const analysis = AnalysisResultSchema.parse(parsedData)
SchemaParseReturns ==
    /\ eng.pc = "PARSED"
    /\ AnalysisResultSchemaAccepts(eng.parsedData)
    /\ eng' = [pc |-> "ACCEPTED", analysis |-> eng.parsedData]
    /\ UNCHANGED <<window, inflight, served, now, redis, analyses, shares, ret, norm>>

\* AnalysisResultSchema.parse throws a ZodError
SchemaParseThrows ==
    /\ eng.pc = "PARSED"
    /\ ~AnalysisResultSchemaAccepts(eng.parsedData)
    /\ eng' = [pc |-> "ZOD_ERROR", parsedData |-> eng.parsedData]
    /\ UNCHANGED <<window, inflight, served, now, redis, analyses, shares, ret, norm>>

NextSchema ==
    \/ SchemaParseReturns
    \/ SchemaParseThrows

SpecSchema == InitSchema /\ [][NextSchema]_vars

(***************************************************************************)
(* C36  Every payload that the schema validation has accepted with         *)
(*      is_legal_document = false has no categories and an empty summary   *)
(*      (no clauses counted, no key takeaways).                            *)
(* The schema checks each field by itself: an answer that says it is no    *)
(* legal document and yet lists categories and a summary is accepted.      *)
(***************************************************************************)
C36_RejectedDocumentHasNoFindings ==
    (eng.pc = "ACCEPTED" /\ ~eng.analysis.document_validation.is_legal_document)
        => /\ eng.analysis.categories = <<>>
           /\ eng.analysis.summary.total_clauses = 0
           /\ eng.analysis.summary.key_takeaways = <<>>


\* the payloads that AnalysisResultSchema.parse has returned
AcceptedResults == {AnalysisResult(legal) : legal \in BOOLEAN}

\* the entries of the analysis cache
AnalysisCache(r) ==
    [k \in {key \in DOMAIN r : key[1] = CACHE_KEYS.ANALYSIS} |-> r[k].val]

\* the last request was an analyze request whose engine run threw (its
\* calls used up, or an answer the schema refused): the handler's catch
\* block recorded the error after model calls had been made
EngineThrew(rt) ==
    /\ rt.op = "analyze"
    /\ rt.res.code = "ANALYSIS_ERROR"
    /\ rt.res.modelCalls > 0
    /\ rt.res.events = <<"error_occurred">>

(***************************************************************************)
(* C37  After any sequence of requests, every payload in the Durable Store *)
(*      and every payload in the analysis cache is one that the engine's   *)
(*      schema validation returned, every payload in the Durable Store has *)
(*      is_legal_document = true, and an analyze request whose engine run  *)
(*      threw (an answer the schema refused included) has put nothing into *)
(*      the cache or the store.                                            *)
(***************************************************************************)
C37_StoredPayloadsValidated ==
    [][ /\ \A a \in analyses' :
              /\ a.analysisData \in AcceptedResults
              /\ a.analysisData.is_legal_document
        /\ \A k \in DOMAIN AnalysisCache(redis') :
              AnalysisCache(redis')[k] \in AcceptedResults
        /\ EngineThrew(ret') =>
              /\ AnalysisCache(redis') = AnalysisCache(redis)
              /\ analyses' = analyses
      ]_vars

\* the store holds a record, the cache holds the payload of a text that is
\* no legal document, and the schema has just refused the only answer of a run
C37_RefusedAnswerLeftNoTrace ==
    /\ EngineThrew(ret) /\ ret.res.modelCalls = 1
    /\ analyses # {}
    /\ \E k \in DOMAIN AnalysisCache(redis) :
          ~AnalysisCache(redis)[k].is_legal_document


(***************************************************************************)
(* C38  No request changes isPublic or companyName of an existing record   *)
(*      unless it is a publish request that presents the creator token     *)
(*      whose digest the record stores.                                    *)
(* The publish handler of route.ts asks for no token, and an analyze       *)
(* request for the text of an expired record overwrites both fields with   *)
(* what the request carries.                                               *)
(***************************************************************************)
C38_OnlyCreatorChangesVisibility ==
    [][ \A a \in analyses : \A b \in analyses' :
            (b.id = a.id /\ (b.isPublic # a.isPublic \/ b.companyName # a.companyName))
                => (ret'.op = "publish" /\ ret'.target.tokenMatches)
      ]_vars


\* the keys of the daily token and request counters that Redis holds
DailyKeys(r) ==
    {k \in DOMAIN r : k[1] \in {CACHE_KEYS.DAILY_TOKENS, CACHE_KEYS.DAILY_REQUESTS}}

(***************************************************************************)
(* C39  Whenever a daily token key or daily request key exists it has an   *)
(*      expiry set, at most 48 hours ahead, also after a checkDailyBudget  *)
(*      call during which the backend failed; and a checkDailyBudget call  *)
(*      during which the backend failed has reported exceeded.             *)
(* The counters are raised by INCRBY and INCR and given their expiry by    *)
(* two later EXPIRE commands: a backend that fails after an increment      *)
(* leaves a counter key that never expires.                                *)
(***************************************************************************)
C39_DailyKeysAlwaysExpire ==
    /\ \A k \in DailyKeys(redis) :
          /\ redis[k].exp # NoExpiry
          /\ redis[k].exp <= now + DailyKeyTtl
    /\ (ret.op = "checkDailyBudget" /\ ret.down) => ret.exceeded


\* what an analyze request has done to the counter of the day: the response,
\* the tokens added, and the engine run the request would start
AnalyzeSpent(out, r, t, run) ==
    [res |-> out.res, spent |-> DailyTokens(out.redis, t) - DailyTokens(r, t),
     run |-> run]

\* an analyze request of a client with the backend and the event log working
AnalyzeSpending(r, t, db, body, script, token) ==
    AnalyzeSpent(
        AnalyzePOST(r, t, db,
                    AnalyzeRequest(CHOOSE ip \in IPs : TRUE, body, TextFacts[body.text],
                                   token, script, NoRedisFailure, FALSE)),
        r, t, EngineRuns[body.text, script].e)

\* the tokens of a run that returned are registered before the document
\* check, the tokens of a run that threw are not registered
BilledByOutcome(request) ==
    /\ (request.res.code = "INVALID_DOCUMENT_TYPE" /\ request.res.modelCalls > 0)
          => /\ request.run.pc = "DONE"
             /\ request.spent = request.run.totalTokens
    /\ (request.res.modelCalls > 0 /\ request.run.pc = "FAILED")
          => /\ request.res.code = "ANALYSIS_ERROR"
             /\ request.spent = 0

(***************************************************************************)
(* C40  An analyze request whose engine run returned a result that is no   *)
(*      legal document is answered INVALID_DOCUMENT_TYPE with the tokens   *)
(*      of the run added to the daily counter (the backend working); an    *)
(*      analyze request whose engine run ended in FAILED has added nothing *)
(*      to the counter, whatever its model calls used.                     *)
(***************************************************************************)
C40_RejectedDocumentStillBilled ==
    /\ \A body \in AnalyzeRequests, script \in Scripts :
          (/\ served < MaxRequests
           /\ \/ EngineRuns[body.text, script].e.pc = "FAILED"
              \/ ~EngineRuns[body.text, script].e.legal)
              => BilledByOutcome(AnalyzeSpending(redis, now, analyses, body, script,
                                                 FreshToken(served)))
    /\ (ret.op = "analyze" /\ ret.res.code = "ANALYSIS_ERROR"
            /\ ret.res.modelCalls > 0 /\ ~ret.wrote)
          => ret.spent = 0

\* a request for a text that is no legal document was refused after the
\* engine had run, and the tokens of the run are in the counter
C40_RefusedAndBilled ==
    /\ ret.op = "analyze"
    /\ ret.res.code = "INVALID_DOCUMENT_TYPE"
    /\ ret.res.modelCalls > 0
    /\ ret.spent = MaxTokenCount

=============================================================================
